---- MODULE Spec2Model ----
(***************************************************************************)
(* Verification model of the MueLu matvec kernel driver                    *)
(* (packages/muelu/test/scaling/MatvecKernelDriver.cpp).                   *)
(*                                                                         *)
(* Two state machines live in this module:                                 *)
(*   Spec      main_ run by numProc MPI ranks: command-line parsing,       *)
(*             availability checks, adapter construction, the randomized   *)
(*             experiment loop, reporting, the catch boundary and return.  *)
(*   SpecPack  one *_SpmV_Pack adapter object driven by a caller that      *)
(*             constructs it on its x and y buffers and calls spmv with    *)
(*             arbitrary alpha and beta.                                   *)
(* C arrays are 0-based; here they are sequences, a[i] being seq[i+1].     *)
(***************************************************************************)
EXTENDS Integers, Sequences, FiniteSets, TLC

(***************************************************************************)
(* Bounds of the model                                                     *)
(***************************************************************************)
\* largest number of MPI ranks of a run
MaxProc == 2
\* largest value given to --nrepeat
MaxRepeat == 2
\* largest number of optional TPLs (MKL, CuSparse, MagmaSparse, HYPRE,
\* PETSc) compiled into one build
MaxTPL == 1
\* largest number of kernel options (--mkl, --nokk, ...) on one command line
MaxOpts == 1
\* rows of the matrix owned by each rank
LocalRows == 2
\* largest magnitude of the alpha and beta handed to an adapter's spmv
MaxCoef == 2

(***************************************************************************)
(* Scalars: a double is either NaN or a (small integer) number             *)
(***************************************************************************)
NaN == [nan |-> TRUE, v |-> 0]
Num(n) == [nan |-> FALSE, v |-> n]
one == Num(1)
zero == Num(0)

Add(a, b) == IF a.nan \/ b.nan THEN NaN ELSE Num(a.v + b.v)
Mul(a, b) == IF a.nan \/ b.nan THEN NaN ELSE Num(a.v * b.v)

\* putScalar: every entry of a vector of length n becomes s
putScalar(n, s) == [j \in 1..n |-> s]

\* the native libraries' y := alpha*ax + beta*y on one entry: with beta = 0
\* the old y is not read (BLAS convention), so a NaN in it does not spread
Axpby(alpha, ax, beta, yold) ==
  IF beta = 0 THEN Mul(Num(alpha), ax)
  ELSE Add(Mul(Num(alpha), ax), Mul(Num(beta), yold))

(***************************************************************************)
(* The matrix: the 1-D Laplace stencil [-1 2 -1] on LocalRows*P unknowns,  *)
(* rank r owning rows r*LocalRows .. (r+1)*LocalRows-1.  The local column  *)
(* index space is the owned columns followed by the ghost columns.         *)
(***************************************************************************)
HasLeftGhost(r, P) == r > 0
HasRightGhost(r, P) == r < P - 1

\* number of local columns (column map size): owned plus ghosts
getLocalNumCols(r, P) ==
  LocalRows + (IF HasLeftGhost(r, P) THEN 1 ELSE 0)
            + (IF HasRightGhost(r, P) THEN 1 ELSE 0)

\* local column index (0-based) of global column c on rank r
LocalCol(r, P, c) ==
  IF c >= r * LocalRows /\ c < (r + 1) * LocalRows THEN c - r * LocalRows
  ELSE IF c < r * LocalRows THEN LocalRows
  ELSE LocalRows + (IF HasLeftGhost(r, P) THEN 1 ELSE 0)

\* the entries <<local column, value>> of local row i (0-based) of rank r
getLocalRowView(r, P, i) ==
  LET g == r * LocalRows + i
      N == LocalRows * P
      lft == IF g > 0 THEN << <<LocalCol(r, P, g - 1), -1>> >> ELSE << >>
      rgt == IF g < N - 1 THEN << <<LocalCol(r, P, g + 1), -1>> >> ELSE << >>
  IN lft \o << <<LocalCol(r, P, g), 2>> >> \o rgt

\* x[j] read through a raw pointer: an index past the end of the buffer is an
\* out-of-bounds read and yields the garbage value g
ReadRaw(X, j, g) == IF j < Len(X) THEN X[j + 1] ELSE g

RECURSIVE RowDot(_, _, _, _)
RowDot(row, X, g, n) ==
  IF n = 0 THEN zero
  ELSE Add(RowDot(row, X, g, n - 1),
           Mul(Num(row[n][2]), ReadRaw(X, row[n][1], g)))

\* the local product A*X of rank r, X read through a raw pointer
LocalSpMV(r, P, X, g) ==
  [i \in 1..LocalRows |->
     LET row == getLocalRowView(r, P, i - 1) IN RowDot(row, X, g, Len(row))]

\* the distributed product A*x for x all ones: the import fills the ghost
\* entries with the owners' values before the local product
ApplyOnes(r, P) == LocalSpMV(r, P, putScalar(getLocalNumCols(r, P), one), one)

(***************************************************************************)
(* The *_SpmV_Pack adapters.  An adapter object is a record                *)
(*   kind         which class                                              *)
(*   specialized  for CuSparse / MagmaSparse: the <double, Cuda node>      *)
(*                specialization (TRUE) or the generic template (FALSE)    *)
(*   x_nat, y_nat the backend-native vectors holding their own copy of the *)
(*                values (PETSc x_p / y_p, HYPRE x_par / y_par); empty for *)
(*                the adapters that alias the caller's buffers.            *)
(* The inputs of a native call are a record nat:                           *)
(*   rc  the code the native product call returns (0 is success)           *)
(*   g   the value an out-of-bounds read of x yields                       *)
(*   ub  the value found in the return register when a non-void function   *)
(*       ends without a return statement                                   *)
(***************************************************************************)
PackKinds == {"PETSC", "HYPRE", "MAGMASPARSE", "CUSPARSE"}
DeepCopyKinds == {"PETSC", "HYPRE"}

\* the constructors: PETSc and HYPRE copy the values of X and Y into vectors
\* of their own (VecSetValues, HYPRE_IJVectorSetValues); the specialized
\* MagmaSparse and CuSparse wrap the callers' pointers; the generic templates
\* of those two have an empty body
Pack_construct(kind, specialized, X, Y) ==
  [kind |-> kind,
   specialized |-> specialized,
   x_nat |-> IF kind \in DeepCopyKinds THEN X ELSE << >>,
   y_nat |-> IF kind \in DeepCopyKinds THEN Y ELSE << >>]

\* the product of a distributed native matrix with the native x: the ghost
\* entries are fetched from their owners, whose x is all ones in every run
NativeMatVec(r, P, xn) == LocalSpMV(r, P, xn, one)

AxpbyVec(alpha, ax, beta, yold) ==
  [j \in 1..Len(ax) |-> Axpby(alpha, ax[j], beta, yold[j])]

\* the result of one spmv call: the adapter, the caller's Y buffer, the value
\* returned, how many native product calls were made and whether
\* Kokkos::fence() ran after them
SpmvResult(pk, Y, rv, launches, fence) ==
  [pk |-> pk, Y |-> Y, rv |-> rv, launches |-> launches, fence |-> fence]

\* Petsc_SpmV_Pack::spmv: MatMult(A_p, x_p, y_p); alpha and beta are not used
Petsc_spmv(pk, alpha, beta, r, P, X, Y, nat) ==
  LET yp == IF nat.rc = 0 THEN NativeMatVec(r, P, pk.x_nat) ELSE pk.y_nat
  IN SpmvResult([pk EXCEPT !.y_nat = yp], Y,
                IF nat.rc # 0 THEN 1 ELSE 0, 1, TRUE)

\* HYPRE_SpmV_Pack::spmv: HYPRE_ParCSRMatrixMatvec(alpha, A, x_par, beta, y_par)
HYPRE_spmv(pk, alpha, beta, r, P, X, Y, nat) ==
  LET yp == IF nat.rc = 0
            THEN AxpbyVec(alpha, NativeMatVec(r, P, pk.x_nat), beta, pk.y_nat)
            ELSE pk.y_nat
  IN SpmvResult([pk EXCEPT !.y_nat = yp], Y,
                IF nat.rc # 0 THEN 1 ELSE 0, 1, TRUE)

\* MagmaSparse_SpmV_Pack::spmv.  Specialization: magma_d_spmv(1.0, A, x, 0.0,
\* y) on the aliased buffers, a fence, and no return statement.  Generic
\* template: return true.
MagmaSparse_spmv(pk, alpha, beta, r, P, X, Y, nat) ==
  IF pk.specialized
  THEN SpmvResult(pk,
                  IF nat.rc = 0
                  THEN AxpbyVec(1, LocalSpMV(r, P, X, nat.g), 0, Y) ELSE Y,
                  nat.ub, 1, TRUE)
  ELSE SpmvResult(pk, Y, 1, 0, FALSE)

\* CuSparse_SpmV_Pack::spmv.  Specialization: cusparseSpMV with &alpha and
\* &beta on the aliased buffers, a fence, return rc.  Generic template:
\* return CUSPARSE_STATUS_SUCCESS.
CuSparse_spmv(pk, alpha, beta, r, P, X, Y, nat) ==
  IF pk.specialized
  THEN SpmvResult(pk,
                  IF nat.rc = 0
                  THEN AxpbyVec(alpha, LocalSpMV(r, P, X, nat.g), beta, Y)
                  ELSE Y,
                  nat.rc, 1, TRUE)
  ELSE SpmvResult(pk, Y, 0, 0, FALSE)

Pack_spmv(pk, alpha, beta, r, P, X, Y, nat) ==
  CASE pk.kind = "PETSC" -> Petsc_spmv(pk, alpha, beta, r, P, X, Y, nat)
    [] pk.kind = "HYPRE" -> HYPRE_spmv(pk, alpha, beta, r, P, X, Y, nat)
    [] pk.kind = "MAGMASPARSE" ->
         MagmaSparse_spmv(pk, alpha, beta, r, P, X, Y, nat)
    [] pk.kind = "CUSPARSE" -> CuSparse_spmv(pk, alpha, beta, r, P, X, Y, nat)

\* what each constructor creates: contexts, matrix and vector descriptors and
\* the index arrays it copies (the generic templates create nothing)
Pack_handles(pk) ==
  CASE pk.kind = "PETSC" -> {"A_p", "x_p", "y_p"}
    [] pk.kind = "HYPRE" -> {"ij_matrix", "x_ij", "y_ij"}
    [] pk.kind = "MAGMASPARSE" ->
         IF pk.specialized
         THEN {"queue", "magma_Acrs", "magma_dev_Acrs", "magma_dev_x",
               "magma_dev_y", "Arowptr_int"}
         ELSE {}
    [] pk.kind = "CUSPARSE" ->
         IF pk.specialized
         THEN {"cublasHandle", "cusparseHandle", "descrA", "vecX", "vecY",
               "Arowptr_cusparse", "Acolind_cusparse"}
         ELSE {}

\* the destructors.  PETSc: VecDestroy twice, MatDestroy.  HYPRE: the IJ
\* matrix and the two IJ vectors.  CuSparse: the three descriptors and the
\* two contexts, then the member views.  MagmaSparse: magma_dmfree on
\* magma_dev_x, magma_dev_y (both set by magma_dvset_dev on the caller's
\* pointers) and magma_dev_Acrs, magma_finalize, then the member view; the
\* queue and magma_Acrs are left.  magma_dmfree frees the device pointer of
\* the vector it is given unless the library keeps track that the vector does
\* not own it (tracksOwnership).
\* The result: the handles released and the caller's buffers freed.
Pack_destroy(pk, tracksOwnership) ==
  [released |-> IF pk.kind = "MAGMASPARSE" /\ pk.specialized
                THEN {"magma_dev_x", "magma_dev_y", "magma_dev_Acrs",
                      "Arowptr_int"}
                ELSE Pack_handles(pk),
   freed |-> IF pk.kind = "MAGMASPARSE" /\ pk.specialized /\ ~tracksOwnership
             THEN {"x", "y"} ELSE {}]

\* the vector an adapter writes its product to: its native y for the
\* deep-copying adapters, the caller's buffer for the aliasing ones
Pack_output(pk, Y) == IF pk.kind \in DeepCopyKinds THEN pk.y_nat ELSE Y

\* a kernel that adds to what the output vector holds
MV_Tpetra_twice(r, P, X, Y) == [j \in 1..LocalRows |-> Add(Y[j], Y[j])]

\* the plain kernels of the driver, all with alpha = 1 and beta = 0
\* MV_Tpetra: A.apply(x, y), which imports the ghost entries of x first
MV_Tpetra(r, P, X, Y) == NativeMatVec(r, P, X)
\* MV_KK: KokkosSparse::spmv on the local matrix and the local views
MV_KK(r, P, X, Y) == LocalSpMV(r, P, X, one)
\* MV_MKL: mkl_sparse_d_mv on raw pointers; the status it returns is dropped
MV_MKL(r, P, X, Y, nat) == IF nat.rc = 0 THEN LocalSpMV(r, P, X, nat.g) ELSE Y

(***************************************************************************)
(* The build and the command line                                          *)
(***************************************************************************)
\* the kernel flags do_mkl, do_tpetra, ... of main_, by option name
Kernels == {"mkl", "tpetra", "kk", "cusparse", "magmasparse", "hypre", "petsc"}
\* the optional third-party libraries, HAVE_MUELU_<TPL>
TPLs == {"mkl", "cusparse", "magmasparse", "hypre", "petsc"}

\* enum class Experiments, in the order of its declaration
ExperimentIds ==
  <<"MKL", "TPETRA", "KK", "CUSPARSE", "MAGMASPARSE", "HYPRE", "PETSC">>
Experiments == {ExperimentIds[j] : j \in 1..Len(ExperimentIds)}

\* the flag that stands behind each experiment
FlagOf(e) ==
  CASE e = "MKL" -> "mkl" [] e = "TPETRA" -> "tpetra" [] e = "KK" -> "kk"
    [] e = "CUSPARSE" -> "cusparse" [] e = "MAGMASPARSE" -> "magmasparse"
    [] e = "HYPRE" -> "hypre" [] e = "PETSC" -> "petsc"

\* A build: the TPLs compiled in (have), HAVE_MPI, whether Node is the Cuda
\* wrapper node and whether Scalar is double.  HAVE_MUELU_TPETRA is defined in
\* every build that compiles: main_ uses yt, declared under that macro,
\* outside any guard.  The HYPRE and PETSc cases of the switch are under the
\* TPL macro alone and use objects declared under the TPL macro and HAVE_MPI,
\* so a build with one of them has MPI; their adapters hand Scalar arrays to
\* double interfaces, so they are instantiated only for double.  Nothing
\* else tests HAVE_MPI: a build without it runs as the same build with it
\* does on one process, and is not listed apart.  The node is tested by the
\* CuSparse and MagmaSparse blocks only and the scalar by the MKL, CuSparse
\* and MagmaSparse blocks only: the other builds are taken on the host
\* node, with double.
Builds ==
  {b \in [have : SUBSET TPLs, mpi : BOOLEAN, cuda : BOOLEAN, dbl : BOOLEAN] :
     /\ Cardinality(b.have) <= MaxTPL
     /\ b.mpi
     /\ b.have \cap {"hypre", "petsc"} # {} => b.dbl
     /\ b.cuda => b.have \cap {"cusparse", "magmasparse"} # {}
     /\ ~b.dbl => b.have \cap {"mkl", "cusparse", "magmasparse"} # {}}

\* the kernel options of a command line: each is absent, given in its
\* positive form (--kk) or in its negative form (--nokk)
KernelOptions == [Kernels -> {"unset", "on", "off"}]

NoOptions == [k \in Kernels |-> "unset"]

\* number of options of a command line besides --nrepeat
NumOptions(a) ==
  Cardinality({k \in Kernels : a.opt[k] # "unset"})
  + (IF a.report_error_norms THEN 1 ELSE 0)
  + (IF a.useStackedTimer THEN 1 ELSE 0)

\* a command line: the kernel options, --report_error_norms, --stackedtimer,
\* --nrepeat and
\* what clp.parse makes of it (a run with --help or with an unknown option
\* is taken with no other option).  Runs in which native library calls fail
\* are taken with a command line that carries --nrepeat only.
CommandLines ==
  {a \in [opt : KernelOptions, report_error_norms : BOOLEAN,
          useStackedTimer : BOOLEAN,
          nrepeat : 0..MaxRepeat, parse : {"PARSE_SUCCESSFUL"}] :
     NumOptions(a) <= MaxOpts}
  \cup [opt : {NoOptions}, report_error_norms : {FALSE},
        useStackedTimer : {FALSE}, nrepeat : {1},
        parse : {"PARSE_HELP_PRINTED", "PARSE_ERROR"}]

\* lines 1130-1154: every flag starts true, a TPL that is not compiled in
\* (HYPRE and PETSc: or a build without MPI) starts false
DefaultFlags(b) ==
  [k \in Kernels |->
     CASE k \in {"tpetra", "kk"} -> TRUE
       [] k \in {"mkl", "cusparse", "magmasparse"} -> k \in b.have
       [] k \in {"hypre", "petsc"} -> k \in b.have /\ b.mpi]

\* lines 1157-1163 and clp.parse: an option that is given overrides the flag
setOption(flags, opt) ==
  [k \in Kernels |-> IF opt[k] = "unset" THEN flags[k] ELSE opt[k] = "on"]

\* the flags as they are after clp.parse: what the run was asked to evaluate
Requested(b, a) == setOption(DefaultFlags(b), a.opt)

\* lines 1187-1227, statement by statement.  s is the record of the flags
\* (do_) and of the backend names of the warnings written to out so far.
Disable(s, k, name) ==
  [do_ |-> [s.do_ EXCEPT ![k] = FALSE], out |-> s.out \cup {name}]

\* a KK check that lets KK through on any number of ranks
CheckKK_any(size, s) == s

\* lines 1187-1190
CheckKK(size, s) ==
  IF s.do_["kk"] /\ size > 1 THEN Disable(s, "kk", "KK") ELSE s

\* lines 1192-1197
CheckMKL(b, s) ==
  IF "mkl" \notin b.have /\ s.do_["mkl"] THEN Disable(s, "mkl", "MKL") ELSE s

\* lines 1199-1206: without the TPL a warning; with it, silently off unless
\* the node is the Cuda node
CheckCuSparse(b, s) ==
  IF "cusparse" \notin b.have
  THEN IF s.do_["cusparse"] THEN Disable(s, "cusparse", "CuSparse") ELSE s
  ELSE IF ~b.cuda THEN [s EXCEPT !.do_["cusparse"] = FALSE] ELSE s

\* lines 1208-1213
CheckMagmaSparse(b, s) ==
  IF "magmasparse" \notin b.have /\ s.do_["magmasparse"]
  THEN Disable(s, "magmasparse", "MagmaSparse") ELSE s

\* lines 1215-1220
CheckHypre(b, s) ==
  IF "hypre" \notin b.have /\ s.do_["hypre"]
  THEN Disable(s, "hypre", "Hypre") ELSE s

\* lines 1222-1227: the condition tests do_hypre, the body disables do_petsc
CheckPetsc(b, s) ==
  IF "petsc" \notin b.have /\ s.do_["hypre"]
  THEN Disable(s, "petsc", "Petsc") ELSE s

AvailabilityChecks(b, size, flags) ==
  CheckPetsc(b, CheckHypre(b, CheckMagmaSparse(b, CheckCuSparse(b,
    CheckMKL(b, CheckKK(size, [do_ |-> flags, out |-> {}]))))))

\* lines 1240-1265: the push_backs, each under its #if
PushIf(list, cond, e) == IF cond THEN Append(list, e) ELSE list

BuildExperiments(b, flags) ==
  LET l1 == PushIf(<< >>, "mkl" \in b.have /\ flags["mkl"], "MKL")
      l2 == PushIf(l1, "cusparse" \in b.have /\ flags["cusparse"], "CUSPARSE")
      l3 == PushIf(l2, "magmasparse" \in b.have /\ flags["magmasparse"],
                   "MAGMASPARSE")
      l4 == PushIf(l3, "hypre" \in b.have /\ b.mpi /\ flags["hypre"], "HYPRE")
      l5 == PushIf(l4, "petsc" \in b.have /\ b.mpi /\ flags["petsc"], "PETSC")
      l6 == PushIf(l5, flags["tpetra"], "TPETRA")
      l7 == PushIf(l6, flags["kk"], "KK")
  IN l7

\* a shuffle that loses elements: every position gets the element the
\* permutation sends the first position to
shuffle_dup(list, p) == [j \in 1..Len(list) |-> list[p[1]]]

\* std::shuffle: the list rearranged by the permutation p the random source
\* yields, p a bijection on 1..Len(list)
shuffle(list, p) == [j \in 1..Len(list) |-> list[p[j]]]

\* a broadcast that leaves the receiver's buffer as it was
broadcast_keep(buf, msg) == buf

\* comm->broadcast(0, sizeof(enum)*size, data) on a receiving rank: as many
\* elements as its own list holds are overwritten by the root's
broadcast(buf, msg) == [j \in 1..Len(buf) |-> msg[j]]

\* the adapter classes instantiated in main_ (lines 1330-1346), whatever the
\* flags say
AdaptersBuilt(b) ==
  {e \in {"CUSPARSE", "MAGMASPARSE"} : FlagOf(e) \in b.have}
  \cup {e \in {"HYPRE", "PETSC"} : FlagOf(e) \in b.have /\ b.mpi}

\* which class template a CuSparse or MagmaSparse object instantiates
Specialized(b) == b.dbl /\ b.cuda

(***************************************************************************)
(* State of a run of main_ on numProc ranks                                *)
(***************************************************************************)
VARIABLES
  build,           \* the build the executable comes from
  numProc,         \* comm->getSize()
  argv,            \* the command line, the same on every rank
  faulty,          \* whether native library calls of this run can fail
  pc,              \* pc[r]: where rank r is in main_
  petsc,           \* petsc[r]: "off", "initialized" or "finalized"
  success,         \* success[r]: the local of that name
  exitStatus,      \* exitStatus[r]: what main_ returned (valid once returned)
  thrown,          \* thrown[r]: an exception reached the catch boundary
  phases,          \* phases[r]: the phases of the run rank r has completed
  do_,             \* do_[r][k]: the flag do_<k>
  out,             \* out[r]: backends named by the warnings rank r wrote
  my_experiments,  \* my_experiments[r]: the vector of that name
  i,               \* i[r]: the repetition counter of the outer loop
  k,               \* k[r]: 0-based position in my_experiments of the inner loop
  x,               \* x[r]: local values of the input vector
  y,               \* y[r]: local values of the shared output vector
  y_baseline,      \* y_baseline[r]: local values of the baseline vector
  adapters,        \* adapters[r]: the adapter objects constructed, by kind
  timers,          \* timers[r][e]: numCalls of the timer of experiment e
  running,         \* running[r]: the experiment whose timer runs, or "none"
  order,           \* order[r]: the backends rank r invoked in this repetition
  calls,           \* calls[r][e]: kernel calls of experiment e made by rank r
  baseline_calls,  \* baseline_calls[r]: kernel calls that wrote y_baseline
  nativeError,     \* nativeError[r]: where a native call returned non-zero
  ratio_table,     \* ratio_table[r]: the table of ratios rank r printed
  bar,             \* bar[r]: number of barriers rank r has entered
  bcastQ           \* bcastQ[r]: broadcast payloads on their way to rank r

drv_vars ==
  <<build, numProc, argv, faulty, pc, petsc, success, exitStatus, thrown, phases,
    do_, out, my_experiments, i, k, x, y, y_baseline, adapters, timers,
    running, order, calls, baseline_calls, nativeError, ratio_table, bar,
    bcastQ>>

(***************************************************************************)
(* State of one adapter object and of the caller that drives it            *)
(***************************************************************************)
VARIABLES
  pk_state,        \* "none" before the constructor ran, "built" after it
  pack,            \* the adapter object (<< >> while there is none)
  callerX,         \* the caller's x buffer
  callerY,         \* the caller's y buffer
  lastCall         \* the last spmv call: its arguments, what it found in the
                   \* output vector and left in it, and its SpmvResult (<< >>
                   \* before any)

VARIABLES
  handles,         \* the backend-native handles and copied arrays the adapter
                   \* holds
  freed            \* the buffers of the caller that have been freed

pack_vars == <<pk_state, pack, callerX, callerY, lastCall, handles, freed>>

(***************************************************************************)
(* State of one call of MakeContiguousMaps                                 *)
(***************************************************************************)
VARIABLES
  mcm_state,            \* "none", "called" (arguments bound), "returned"
  Matrix,               \* the matrix argument: its maps and whether its
                        \* graph has an importer (<< >> while there is none)
  ContiguousRowMap,     \* the three output arguments (<< >> until assigned)
  ContiguousColumnMap,
  ContiguousDomainMap

maps_vars == <<mcm_state, Matrix, ContiguousRowMap, ContiguousColumnMap,
               ContiguousDomainMap>>

(***************************************************************************)
(* State of one call of report_performance_models                          *)
(***************************************************************************)
VARIABLES
  rpm_pc,          \* where the call is: "none", "tables", "local",
                   \* "composite", "remote", "ratios", "returned", or
                   \* "thrown" / "crashed" when it ended early
  rpm_in,          \* what the call is given: the local sizes of the matrix,
                   \* its importer and the lengths its distributor sends
                   \* and receives, the timer registry (<< >> while there is
                   \* no call)
  rpm              \* the locals and the output of the call so far

rpm_vars == <<rpm_pc, rpm_in, rpm>>

\* what the actions of each of the state machines leave alone
non_drv_vars == <<pack_vars, maps_vars, rpm_vars>>
non_pack_vars == <<drv_vars, maps_vars, rpm_vars>>
non_maps_vars == <<drv_vars, pack_vars, rpm_vars>>
non_rpm_vars == <<drv_vars, pack_vars, maps_vars>>

vars == <<drv_vars, pack_vars, maps_vars, rpm_vars>>

Ranks == 0..(numProc - 1)

EXIT_SUCCESS == 0
EXIT_FAILURE == 1

\* what a native call can return, what an out-of-bounds read can yield, what
\* a missing return statement can leave behind
NativeInputs == [rc : {0, 1}, g : {one, NaN}, ub : {0, 1}]
NativeOk == [rc |-> 0, g |-> one, ub |-> 0]

\* a return statement that reports success whatever happened
ExitCode_zero(ok) == EXIT_SUCCESS

\* line 1602: return ( success ? EXIT_SUCCESS : EXIT_FAILURE )
ExitCode(ok) == IF ok THEN EXIT_SUCCESS ELSE EXIT_FAILURE

\* no adapter object under test
PackIdle ==
  /\ pk_state = "none"
  /\ pack = << >>
  /\ callerX = << >>
  /\ callerY = << >>
  /\ lastCall = << >>
  /\ handles = {}
  /\ freed = {}

\* no call of MakeContiguousMaps
MapsIdle ==
  /\ mcm_state = "none"
  /\ Matrix = << >>
  /\ ContiguousRowMap = << >>
  /\ ContiguousColumnMap = << >>
  /\ ContiguousDomainMap = << >>

\* no call of report_performance_models
RpmIdle ==
  /\ rpm_pc = "none"
  /\ rpm_in = << >>
  /\ rpm = << >>

DrvInit ==
  \E b \in Builds, P \in 1..MaxProc, a \in CommandLines, f \in BOOLEAN :
    /\ P > 1 => b.mpi
    /\ f => NumOptions(a) = 0 /\ a.parse = "PARSE_SUCCESSFUL"
    /\ build = b
    /\ numProc = P
    /\ argv = a
    /\ faulty = f
    /\ pc = [r \in 0..(P - 1) |-> "enter"]
    /\ petsc = [r \in 0..(P - 1) |-> "off"]
    /\ success = [r \in 0..(P - 1) |-> FALSE]
    /\ exitStatus = [r \in 0..(P - 1) |-> EXIT_SUCCESS]
    /\ thrown = [r \in 0..(P - 1) |-> FALSE]
    /\ phases = [r \in 0..(P - 1) |-> {}]
    /\ do_ = [r \in 0..(P - 1) |-> DefaultFlags(b)]
    /\ out = [r \in 0..(P - 1) |-> {}]
    /\ my_experiments = [r \in 0..(P - 1) |-> << >>]
    /\ i = [r \in 0..(P - 1) |-> 0]
    /\ k = [r \in 0..(P - 1) |-> 0]
    /\ x = [r \in 0..(P - 1) |-> << >>]
    /\ y = [r \in 0..(P - 1) |-> << >>]
    /\ y_baseline = [r \in 0..(P - 1) |-> << >>]
    /\ adapters = [r \in 0..(P - 1) |-> << >>]
    /\ timers = [r \in 0..(P - 1) |-> [e \in Experiments |-> 0]]
    /\ running = [r \in 0..(P - 1) |-> "none"]
    /\ order = [r \in 0..(P - 1) |-> << >>]
    /\ calls = [r \in 0..(P - 1) |-> [e \in Experiments |-> 0]]
    /\ baseline_calls = [r \in 0..(P - 1) |-> 0]
    /\ nativeError = [r \in 0..(P - 1) |-> {}]
    /\ ratio_table = [r \in 0..(P - 1) |-> << >>]
    /\ bar = [r \in 0..(P - 1) |-> 0]
    /\ bcastQ = [r \in 0..(P - 1) |-> << >>]

(***************************************************************************)
(* main_, one action per step of a rank                                    *)
(***************************************************************************)
\* lines 1087-1093: PetscInitialize under its #if, success = false
PetscInit(r) ==
  /\ pc[r] = "enter"
  /\ petsc' = [petsc EXCEPT ![r] =
                 IF "petsc" \in build.have /\ build.mpi
                 THEN "initialized" ELSE "off"]
  /\ success' = [success EXCEPT ![r] = FALSE]
  /\ pc' = [pc EXCEPT ![r] = "parse"]
  /\ UNCHANGED non_drv_vars
  /\ UNCHANGED <<build, numProc, argv, faulty, exitStatus, thrown, phases,
                 do_, out, my_experiments, i, k, x, y, y_baseline, adapters,
                 timers, running, order, calls, baseline_calls, nativeError,
                 ratio_table, bar, bcastQ>>

\* lines 1130-1181: the defaults, the options and the switch on clp.parse,
\* whose first three cases return from inside the try block
ParseCommandLine(r) ==
  /\ pc[r] = "parse"
  /\ do_' = [do_ EXCEPT ![r] = setOption(DefaultFlags(build), argv.opt)]
  /\ IF argv.parse = "PARSE_HELP_PRINTED"
     THEN /\ pc' = [pc EXCEPT ![r] = "returned"]
          /\ exitStatus' = [exitStatus EXCEPT ![r] = EXIT_SUCCESS]
     ELSE IF argv.parse = "PARSE_ERROR"
     THEN /\ pc' = [pc EXCEPT ![r] = "returned"]
          /\ exitStatus' = [exitStatus EXCEPT ![r] = EXIT_FAILURE]
     ELSE /\ pc' = [pc EXCEPT ![r] = "load"]
          /\ UNCHANGED exitStatus
  /\ UNCHANGED non_drv_vars
  /\ UNCHANGED <<build, numProc, argv, faulty, petsc, success, thrown,
                 phases, out, my_experiments, i, k, x, y, y_baseline,
                 adapters, timers, running, order, calls, baseline_calls,
                 nativeError, ratio_table, bar, bcastQ>>

\* line 1184: MatrixLoad, which reads files and may throw
MatrixLoad(r) ==
  /\ pc[r] = "load"
  /\ \E loaded \in BOOLEAN :
       /\ pc' = [pc EXCEPT ![r] = IF loaded THEN "checks" ELSE "catch"]
       /\ thrown' = [thrown EXCEPT ![r] = ~loaded]
  /\ UNCHANGED non_drv_vars
  /\ UNCHANGED <<build, numProc, argv, faulty, petsc, success, exitStatus,
                 phases, do_, out, my_experiments, i, k, x, y, y_baseline,
                 adapters, timers, running, order, calls, baseline_calls,
                 nativeError, ratio_table, bar, bcastQ>>

\* lines 1187-1302: the availability checks (out prints on rank 0 only), the
\* list of experiments, the timers and the first barrier
Setup(r) ==
  /\ pc[r] = "checks"
  /\ LET s == AvailabilityChecks(build, numProc, do_[r])
     IN /\ do_' = [do_ EXCEPT ![r] = s.do_]
        /\ out' = [out EXCEPT ![r] = IF r = 0 THEN s.out ELSE {}]
        /\ my_experiments' =
             [my_experiments EXCEPT ![r] = BuildExperiments(build, s.do_)]
  /\ bar' = [bar EXCEPT ![r] = @ + 1]
  /\ pc' = [pc EXCEPT ![r] = "bar1"]
  /\ UNCHANGED non_drv_vars
  /\ UNCHANGED <<build, numProc, argv, faulty, petsc, success, exitStatus,
                 thrown, phases, i, k, x, y, y_baseline, adapters, timers,
                 running, order, calls, baseline_calls, nativeError,
                 ratio_table, bcastQ>>

\* a barrier that lets a rank through at once
BarrierDone_alone(r) == TRUE

\* comm->barrier() returns on a rank once every rank has entered it
BarrierDone(r) == \A q \in Ranks : bar[q] >= bar[r]

\* lines 1305-1396: y and y_baseline filled with NaN, x with ones; every
\* adapter class of the build is constructed on xt and yt, whatever the flags;
\* the MKL handle is created.  At most one constructor meets a native call
\* that returns non-zero (bad, in a faulty run): HYPRE_CHK_ERR throws, the
\* others go on.
\* A scalar other than double makes the MKL block throw.  Then the barrier.
ConstructAdapters(r) ==
  /\ pc[r] = "bar1"
  /\ BarrierDone(r)
  /\ LET X == putScalar(LocalRows, one)
         Y == putScalar(LocalRows, NaN)
         built == AdaptersBuilt(build)
         mkl == IF "mkl" \in build.have THEN {"MKL"} ELSE {}
     IN \E bad \in {"none"} \cup (IF faulty THEN built \cup mkl ELSE {}) :
          LET throws == bad = "HYPRE" \/ (mkl # {} /\ ~build.dbl)
          IN /\ x' = [x EXCEPT ![r] = X]
             /\ y' = [y EXCEPT ![r] = Y]
             /\ y_baseline' = [y_baseline EXCEPT ![r] = Y]
             /\ nativeError' = [nativeError EXCEPT ![r] =
                  IF bad = "none" THEN @ ELSE @ \cup {"construct"}]
             /\ thrown' = [thrown EXCEPT ![r] = throws]
             /\ IF throws
                THEN /\ pc' = [pc EXCEPT ![r] = "catch"]
                     /\ UNCHANGED <<adapters, bar>>
                ELSE /\ adapters' = [adapters EXCEPT ![r] =
                          [e \in built |->
                             Pack_construct(e, Specialized(build), X, Y)]]
                     /\ bar' = [bar EXCEPT ![r] = @ + 1]
                     /\ pc' = [pc EXCEPT ![r] = "bar2"]
  /\ UNCHANGED non_drv_vars
  /\ UNCHANGED <<build, numProc, argv, faulty, petsc, success, exitStatus,
                 phases, do_, out, my_experiments, i, k, timers, running,
                 order, calls, baseline_calls, ratio_table, bcastQ>>

\* lines 1412-1415: the baseline, by the Tpetra kernel, when norms are on
Baseline(r) ==
  /\ pc[r] = "bar2"
  /\ BarrierDone(r)
  /\ y_baseline' = [y_baseline EXCEPT ![r] =
       IF argv.report_error_norms
       THEN MV_Tpetra(r, numProc, x[r], y_baseline[r]) ELSE @]
  /\ baseline_calls' = [baseline_calls EXCEPT ![r] =
       IF argv.report_error_norms THEN @ + 1 ELSE @]
  /\ pc' = [pc EXCEPT ![r] = "loop"]
  /\ UNCHANGED non_drv_vars
  /\ UNCHANGED <<build, numProc, argv, faulty, petsc, success, exitStatus,
                 thrown, phases, do_, out, my_experiments, i, k, x, y,
                 adapters, timers, running, order, calls, nativeError,
                 ratio_table, bar, bcastQ>>

\* lines 1425-1433: the guard on an empty list, the loop test, and the
\* rank that shuffles
LoopHead(r) ==
  /\ pc[r] = "loop"
  /\ IF my_experiments[r] # << >> /\ i[r] < argv.nrepeat
     THEN /\ pc' = [pc EXCEPT ![r] = IF r = 0 THEN "shuffle" ELSE "bcast"]
          /\ order' = [order EXCEPT ![r] = << >>]
          /\ UNCHANGED phases
     ELSE /\ pc' = [pc EXCEPT ![r] = "summarize"]
          /\ phases' = [phases EXCEPT ![r] = @ \cup {"loop"}]
          /\ UNCHANGED order
  /\ UNCHANGED non_drv_vars
  /\ UNCHANGED <<build, numProc, argv, faulty, petsc, success, exitStatus,
                 thrown, do_, out, my_experiments, i, k, x, y, y_baseline,
                 adapters, timers, running, calls, baseline_calls,
                 nativeError, ratio_table, bar, bcastQ>>

\* line 1432: std::shuffle with the random source, on rank 0
Shuffle(r) ==
  /\ pc[r] = "shuffle"
  /\ \E p \in Permutations(1..Len(my_experiments[r])) :
       my_experiments' =
         [my_experiments EXCEPT ![r] = shuffle(my_experiments[r], p)]
  /\ pc' = [pc EXCEPT ![r] = "bcast"]
  /\ UNCHANGED non_drv_vars
  /\ UNCHANGED <<build, numProc, argv, faulty, petsc, success, exitStatus,
                 thrown, phases, do_, out, i, k, x, y, y_baseline, adapters,
                 timers, running, order, calls, baseline_calls, nativeError,
                 ratio_table, bar, bcastQ>>

\* lines 1436-1438 on the root: its list goes out to every other rank
BroadcastRoot(r) ==
  /\ pc[r] = "bcast"
  /\ r = 0
  /\ bcastQ' = [q \in Ranks |->
                  IF q = r THEN bcastQ[q]
                  ELSE Append(bcastQ[q], my_experiments[r])]
  /\ k' = [k EXCEPT ![r] = 0]
  /\ pc' = [pc EXCEPT ![r] = "timer_start"]
  /\ UNCHANGED non_drv_vars
  /\ UNCHANGED <<build, numProc, argv, faulty, petsc, success, exitStatus,
                 thrown, phases, do_, out, my_experiments, i, x, y,
                 y_baseline, adapters, timers, running, order, calls,
                 baseline_calls, nativeError, ratio_table, bar>>

\* lines 1436-1438 on another rank: it blocks until the root's payload is
\* there and copies it over its own list
BroadcastRecv(r) ==
  /\ pc[r] = "bcast"
  /\ r # 0
  /\ bcastQ[r] # << >>
  /\ my_experiments' =
       [my_experiments EXCEPT ![r] = broadcast(@, Head(bcastQ[r]))]
  /\ bcastQ' = [bcastQ EXCEPT ![r] = Tail(@)]
  /\ k' = [k EXCEPT ![r] = 0]
  /\ pc' = [pc EXCEPT ![r] = "timer_start"]
  /\ UNCHANGED non_drv_vars
  /\ UNCHANGED <<build, numProc, argv, faulty, petsc, success, exitStatus,
                 thrown, phases, do_, out, i, x, y, y_baseline, adapters,
                 timers, running, order, calls, baseline_calls, nativeError,
                 ratio_table, bar>>

\* the experiment the inner loop of rank r is at
experiment_id(r) == my_experiments[r][k[r] + 1]

\* a switch that starts the Tpetra timer under another name
TimerName_other(e) ==
  CASE e = "MKL" -> "MV MKL: Total" [] e = "KK" -> "MV KK: Total"
    [] e = "TPETRA" -> "MV TPETRA: Total"
    [] e = "CUSPARSE" -> "MV CuSparse: Total"
    [] e = "MAGMASPARSE" -> "MV MagmaSparse: Total"
    [] e = "HYPRE" -> "MV HYPRE: Total" [] e = "PETSC" -> "MV Petsc: Total"

\* the name of the timer each case of the switch starts
TimerName(e) ==
  CASE e = "MKL" -> "MV MKL: Total" [] e = "KK" -> "MV KK: Total"
    [] e = "TPETRA" -> "MV Tpetra: Total"
    [] e = "CUSPARSE" -> "MV CuSparse: Total"
    [] e = "MAGMASPARSE" -> "MV MagmaSparse: Total"
    [] e = "HYPRE" -> "MV HYPRE: Total" [] e = "PETSC" -> "MV Petsc: Total"

\* lines 392-398
timer_names ==
  <<"MV MKL: Total", "MV KK: Total", "MV Tpetra: Total",
    "MV CuSparse: Total", "MV MagmaSparse: Total", "MV HYPRE: Total",
    "MV Petsc: Total">>

\* the timer registry of Teuchos::TimeMonitor is a function from the names
\* of the timers created so far to their numCalls
lookupCounter(registry, name) ==
  IF name \in DOMAIN registry
  THEN [is_null |-> FALSE, numCalls |-> registry[name]]
  ELSE [is_null |-> TRUE, numCalls |-> 0]

\* lines 400-429 on rank 0: with globalTimeMonitor set (the flat timer) one
\* row for each name of timer_names the registry knows, every entry a
\* predicted time over totalElapsedTime / numCalls; without it the note
RatioTable(registry, flat) ==
  IF flat
  THEN LET found == SelectSeq(timer_names,
                      LAMBDA nm : ~lookupCounter(registry, nm).is_null)
       IN [rows |-> [j \in 1..Len(found) |->
                       [name |-> found[j],
                        numCalls |-> lookupCounter(registry, found[j]).numCalls]],
           note |-> FALSE]
  ELSE [rows |-> << >>, note |-> TRUE]

\* line 1300: the timer the flat TimeMonitor runs on
GlobalTimerName == "MatrixRead: S - Global Time"

\* the registry of TimeMonitor on rank r: TimeMonitor::getNewTimer enters a
\* name when it is first asked for (lines 1300 and 1448-1517); the value
\* is the numCalls of the timer
Registry(r) ==
  LET started == {e \in Experiments : timers[r][e] > 0}
      names == {TimerName(e) : e \in started}
               \cup (IF argv.useStackedTimer THEN {} ELSE {GlobalTimerName})
  IN [nm \in names |->
        IF nm = GlobalTimerName THEN 1
        ELSE timers[r][CHOOSE e \in started : TimerName(e) = nm]]

\* the cases of the switch the build compiles (lines 1444-1521): KK and
\* TPETRA under HAVE_MUELU_TPETRA, which every build has, the others under
\* the macro of their TPL
CaseCompiled(b, e) == e \in {"KK", "TPETRA"} \/ FlagOf(e) \in b.have

\* what the default branch writes to std::cerr (lines 1523-1524)
UnknownExperiment == "Unknown experiment ID"

\* the TimeMonitor constructed first in each case of the switch: the timer
\* of the experiment starts and counts one more call.  An identifier with no
\* case goes to the default branch, which writes its message and leaves the
\* switch.
TimerStart(r) ==
  /\ pc[r] = "timer_start"
  /\ IF CaseCompiled(build, experiment_id(r))
     THEN /\ timers' = [timers EXCEPT ![r][experiment_id(r)] = @ + 1]
          /\ running' = [running EXCEPT ![r] = experiment_id(r)]
          /\ pc' = [pc EXCEPT ![r] = "kernel"]
          /\ UNCHANGED out
     ELSE /\ out' = [out EXCEPT ![r] = @ \cup {UnknownExperiment}]
          /\ pc' = [pc EXCEPT ![r] =
                      IF argv.report_error_norms THEN "norm" ELSE "fence"]
          /\ UNCHANGED <<timers, running>>
  /\ UNCHANGED non_drv_vars
  /\ UNCHANGED <<build, numProc, argv, faulty, petsc, success, exitStatus,
                 thrown, phases, do_, my_experiments, i, k, x, y,
                 y_baseline, adapters, order, calls, baseline_calls,
                 nativeError, ratio_table, bar, bcastQ>>

\* the kernel call of each case of the switch (lines 1444-1521), alpha = 1.0
\* and beta = 0.0; the value spmv returns is not looked at.  The result is the
\* record of SpmvResult.  Native calls fail in faulty runs only, and at most
\* one of them on each rank.
Dispatch(e, pk, r, P, X, Y, nat) ==
  CASE e = "MKL" -> SpmvResult(pk, MV_MKL(r, P, X, Y, nat), 0, 1, TRUE)
    [] e = "KK" -> SpmvResult(pk, MV_KK(r, P, X, Y), 0, 1, TRUE)
    [] e = "TPETRA" -> SpmvResult(pk, MV_Tpetra(r, P, X, Y), 0, 1, TRUE)
    [] OTHER -> Pack_spmv(pk, 1, 0, r, P, X, Y, nat)

\* the experiments whose kernel is a native library call with a status
NativeExperiments == {"MKL", "CUSPARSE", "MAGMASPARSE", "HYPRE", "PETSC"}

Kernel(r) ==
  /\ pc[r] = "kernel"
  /\ \E nat \in NativeInputs :
       LET e == experiment_id(r)
           pk == IF e \in DOMAIN adapters[r] THEN adapters[r][e] ELSE << >>
           res == Dispatch(e, pk, r, numProc, x[r], y[r], nat)
       IN /\ nat.rc # 0 => faulty /\ nativeError[r] = {}
          /\ y' = [y EXCEPT ![r] = res.Y]
          /\ adapters' = IF e \in DOMAIN adapters[r]
                         THEN [adapters EXCEPT ![r][e] = res.pk]
                         ELSE adapters
          /\ nativeError' = [nativeError EXCEPT ![r] =
               IF e \in NativeExperiments /\ res.launches > 0 /\ nat.rc # 0
               THEN @ \cup {"spmv"} ELSE @]
          /\ order' = [order EXCEPT ![r] = Append(@, e)]
          /\ calls' = [calls EXCEPT ![r][e] = @ + 1]
  /\ pc' = [pc EXCEPT ![r] = "timer_stop"]
  /\ UNCHANGED non_drv_vars
  /\ UNCHANGED <<build, numProc, argv, faulty, petsc, success, exitStatus,
                 thrown, phases, do_, out, my_experiments, i, k, x,
                 y_baseline, timers, running, baseline_calls, ratio_table,
                 bar, bcastQ>>

\* the closing brace of the case: the TimeMonitor goes out of scope
TimerStop(r) ==
  /\ pc[r] = "timer_stop"
  /\ running' = [running EXCEPT ![r] = "none"]
  /\ pc' = [pc EXCEPT ![r] =
              IF argv.report_error_norms THEN "norm" ELSE "fence"]
  /\ UNCHANGED non_drv_vars
  /\ UNCHANGED <<build, numProc, argv, faulty, petsc, success, exitStatus,
                 thrown, phases, do_, out, my_experiments, i, k, x, y,
                 y_baseline, adapters, timers, order, calls, baseline_calls,
                 nativeError, ratio_table, bar, bcastQ>>

\* lines 1528-1562: the norms of y and of y - y_baseline are printed and y
\* is filled with NaN
NormCheck(r) ==
  /\ pc[r] = "norm"
  /\ y' = [y EXCEPT ![r] = putScalar(Len(@), NaN)]
  /\ pc' = [pc EXCEPT ![r] = "fence"]
  /\ UNCHANGED non_drv_vars
  /\ UNCHANGED <<build, numProc, argv, faulty, petsc, success, exitStatus,
                 thrown, phases, do_, out, my_experiments, i, k, x,
                 y_baseline, adapters, timers, running, order, calls,
                 baseline_calls, nativeError, ratio_table, bar, bcastQ>>

\* lines 1565-1566: Kokkos::fence() and the entry into comm->barrier()
FenceBarrier(r) ==
  /\ pc[r] = "fence"
  /\ bar' = [bar EXCEPT ![r] = @ + 1]
  /\ pc' = [pc EXCEPT ![r] = "barrier"]
  /\ UNCHANGED non_drv_vars
  /\ UNCHANGED <<build, numProc, argv, faulty, petsc, success, exitStatus,
                 thrown, phases, do_, out, my_experiments, i, k, x, y,
                 y_baseline, adapters, timers, running, order, calls,
                 baseline_calls, nativeError, ratio_table, bcastQ>>

\* the barrier returns; the inner loop moves on, or the outer one does
NextExperiment(r) ==
  /\ pc[r] = "barrier"
  /\ BarrierDone(r)
  /\ IF k[r] + 1 < Len(my_experiments[r])
     THEN /\ k' = [k EXCEPT ![r] = @ + 1]
          /\ pc' = [pc EXCEPT ![r] = "timer_start"]
          /\ UNCHANGED i
     ELSE /\ i' = [i EXCEPT ![r] = @ + 1]
          /\ pc' = [pc EXCEPT ![r] = "loop"]
          /\ UNCHANGED k
  /\ UNCHANGED non_drv_vars
  /\ UNCHANGED <<build, numProc, argv, faulty, petsc, success, exitStatus,
                 thrown, phases, do_, out, my_experiments, x, y, y_baseline,
                 adapters, timers, running, order, calls, baseline_calls,
                 nativeError, ratio_table, bar, bcastQ>>

\* lines 1571-1585: the timer summary
Summarize(r) ==
  /\ pc[r] = "summarize"
  /\ phases' = [phases EXCEPT ![r] = @ \cup {"summary"}]
  /\ pc' = [pc EXCEPT ![r] = "report"]
  /\ UNCHANGED non_drv_vars
  /\ UNCHANGED <<build, numProc, argv, faulty, petsc, success, exitStatus,
                 thrown, do_, out, my_experiments, i, k, x, y, y_baseline,
                 adapters, timers, running, order, calls, baseline_calls,
                 nativeError, ratio_table, bar, bcastQ>>

\* the matrix has an importer exactly when some column is a ghost column
ImporterIsNull == numProc = 1

\* lines 1590-1593 with an importer: the cost reporter runs and rank 0
\* prints the table of ratios (globalTimeMonitor is set exactly when the
\* stacked timer is not in use, lines 1297-1300), success = true
Report(r) ==
  /\ pc[r] = "report"
  /\ ~ImporterIsNull
  /\ ratio_table' = [ratio_table EXCEPT ![r] =
       IF r = 0 THEN RatioTable(Registry(r), ~argv.useStackedTimer) ELSE @]
  /\ phases' = [phases EXCEPT ![r] = @ \cup {"report"}]
  /\ success' = [success EXCEPT ![r] = TRUE]
  /\ pc' = [pc EXCEPT ![r] = "finalize"]
  /\ UNCHANGED non_drv_vars
  /\ UNCHANGED <<build, numProc, argv, faulty, petsc, exitStatus, thrown,
                 do_, out, my_experiments, i, k, x, y, y_baseline, adapters,
                 timers, running, order, calls, baseline_calls, nativeError,
                 bar, bcastQ>>

\* line 1590 without an importer: line 171 calls a method through the null
\* RCP.  A checked RCP throws; an unchecked one dereferences the null
\* pointer and the process dies.
ReportNullImporter(r) ==
  /\ pc[r] = "report"
  /\ ImporterIsNull
  /\ \E checked \in BOOLEAN :
       /\ pc' = [pc EXCEPT ![r] = IF checked THEN "catch" ELSE "crashed"]
       /\ thrown' = [thrown EXCEPT ![r] = checked]
  /\ UNCHANGED non_drv_vars
  /\ UNCHANGED <<build, numProc, argv, faulty, petsc, success, exitStatus,
                 phases, do_, out, my_experiments, i, k, x, y, y_baseline,
                 adapters, timers, running, order, calls, baseline_calls,
                 nativeError, ratio_table, bar, bcastQ>>

\* line 1595: TEUCHOS_STANDARD_CATCH_STATEMENTS catches everything
Catch(r) ==
  /\ pc[r] = "catch"
  /\ success' = [success EXCEPT ![r] = FALSE]
  /\ pc' = [pc EXCEPT ![r] = "finalize"]
  /\ UNCHANGED non_drv_vars
  /\ UNCHANGED <<build, numProc, argv, faulty, petsc, exitStatus, thrown,
                 phases, do_, out, my_experiments, i, k, x, y, y_baseline,
                 adapters, timers, running, order, calls, baseline_calls,
                 nativeError, ratio_table, bar, bcastQ>>

\* lines 1597-1602: PetscFinalize under its #if and the return
Finalize(r) ==
  /\ pc[r] = "finalize"
  /\ petsc' = [petsc EXCEPT ![r] =
                 IF "petsc" \in build.have /\ build.mpi
                 THEN "finalized" ELSE @]
  /\ exitStatus' = [exitStatus EXCEPT ![r] = ExitCode(success[r])]
  /\ pc' = [pc EXCEPT ![r] = "returned"]
  /\ UNCHANGED non_drv_vars
  /\ UNCHANGED <<build, numProc, argv, faulty, success, thrown, phases, do_,
                 out, my_experiments, i, k, x, y, y_baseline, adapters,
                 timers, running, order, calls, baseline_calls, nativeError,
                 ratio_table, bar, bcastQ>>

DrvNext ==
  \/ \E r \in Ranks : PetscInit(r)
  \/ \E r \in Ranks : ParseCommandLine(r)
  \/ \E r \in Ranks : MatrixLoad(r)
  \/ \E r \in Ranks : Setup(r)
  \/ \E r \in Ranks : ConstructAdapters(r)
  \/ \E r \in Ranks : Baseline(r)
  \/ \E r \in Ranks : LoopHead(r)
  \/ \E r \in Ranks : Shuffle(r)
  \/ \E r \in Ranks : BroadcastRoot(r)
  \/ \E r \in Ranks : BroadcastRecv(r)
  \/ \E r \in Ranks : TimerStart(r)
  \/ \E r \in Ranks : Kernel(r)
  \/ \E r \in Ranks : TimerStop(r)
  \/ \E r \in Ranks : NormCheck(r)
  \/ \E r \in Ranks : FenceBarrier(r)
  \/ \E r \in Ranks : NextExperiment(r)
  \/ \E r \in Ranks : Summarize(r)
  \/ \E r \in Ranks : Report(r)
  \/ \E r \in Ranks : ReportNullImporter(r)
  \/ \E r \in Ranks : Catch(r)
  \/ \E r \in Ranks : Finalize(r)

Init == DrvInit /\ PackIdle /\ MapsIdle /\ RpmIdle

Next == DrvNext

Spec == Init /\ [][Next]_vars

(***************************************************************************)
(* One adapter object on one process (rank 0 of 1, so no ghost columns),   *)
(* driven by a caller that owns x and y                                    *)
(***************************************************************************)
\* largest number of spmv calls made on one object
MaxCalls == 2

\* the values the caller puts into x, and into y before constructing
XValues == {one, Num(2)}
YValues == {NaN, zero, one}

\* the scalars handed to spmv
Coefs == 0..MaxCoef

\* no run of main_
DrvIdle ==
  /\ build = [have |-> {}, mpi |-> TRUE, cuda |-> FALSE, dbl |-> TRUE]
  /\ numProc = 0
  /\ argv = [opt |-> NoOptions, report_error_norms |-> FALSE,
             useStackedTimer |-> FALSE, nrepeat |-> 0,
             parse |-> "PARSE_SUCCESSFUL"]
  /\ faulty = FALSE
  /\ pc = << >> /\ petsc = << >> /\ success = << >> /\ exitStatus = << >>
  /\ thrown = << >> /\ phases = << >> /\ do_ = << >> /\ out = << >>
  /\ my_experiments = << >> /\ i = << >> /\ k = << >> /\ x = << >>
  /\ y = << >> /\ y_baseline = << >> /\ adapters = << >> /\ timers = << >>
  /\ running = << >> /\ order = << >> /\ calls = << >>
  /\ baseline_calls = << >> /\ ratio_table = << >>
  /\ nativeError = << >> /\ bar = << >> /\ bcastQ = << >>

PackInit == DrvIdle /\ PackIdle /\ MapsIdle /\ RpmIdle

\* the caller fills x and y and constructs an adapter of some class on them
PackConstruct ==
  /\ pk_state = "none"
  /\ \E kind \in PackKinds, specialized \in BOOLEAN,
        X \in [1..LocalRows -> XValues], Y \in [1..LocalRows -> YValues] :
       /\ kind \in DeepCopyKinds => specialized
       /\ callerX' = X
       /\ callerY' = Y
       /\ pack' = Pack_construct(kind, specialized, X, Y)
       /\ handles' = Pack_handles(Pack_construct(kind, specialized, X, Y))
  /\ pk_state' = "built"
  /\ UNCHANGED <<lastCall, freed>>
  /\ UNCHANGED non_pack_vars

\* the caller calls spmv(alpha, beta)
PackSpmv ==
  /\ pk_state = "built"
  /\ IF lastCall = << >> THEN TRUE ELSE lastCall.n < MaxCalls
  /\ \E alpha \in Coefs, beta \in Coefs, nat \in NativeInputs :
       LET res == Pack_spmv(pack, alpha, beta, 0, 1, callerX, callerY, nat)
       IN /\ pack' = res.pk
          /\ callerY' = res.Y
          /\ lastCall' = [n |-> IF lastCall = << >> THEN 1 ELSE lastCall.n + 1,
                          alpha |-> alpha, beta |-> beta, rc |-> nat.rc,
                          x_in |-> IF pack.kind \in DeepCopyKinds
                                   THEN pack.x_nat ELSE callerX,
                          y_old |-> Pack_output(pack, callerY),
                          y_new |-> Pack_output(res.pk, res.Y),
                          rv |-> res.rv, launches |-> res.launches,
                          fence |-> res.fence]
  /\ UNCHANGED <<pk_state, callerX, handles, freed>>
  /\ UNCHANGED non_pack_vars

\* the caller overwrites its y buffer with the NaN sentinel, as the driver
\* does after each norm check
PackFillY ==
  /\ pk_state = "built"
  /\ lastCall # << >>
  /\ callerY' = putScalar(Len(callerY), NaN)
  /\ UNCHANGED <<pk_state, pack, callerX, lastCall, handles, freed>>
  /\ UNCHANGED non_pack_vars

\* the adapter goes out of scope: its destructor runs
PackDestroy ==
  /\ pk_state = "built"
  /\ \E tracksOwnership \in BOOLEAN :
       LET d == Pack_destroy(pack, tracksOwnership)
       IN /\ handles' = handles \ d.released
          /\ freed' = freed \cup d.freed
  /\ pk_state' = "destroyed"
  /\ UNCHANGED <<pack, callerX, callerY, lastCall>>
  /\ UNCHANGED non_pack_vars

PackNext == PackConstruct \/ PackSpmv \/ PackFillY \/ PackDestroy

SpecPack == PackInit /\ [][PackNext]_vars

(***************************************************************************)
(* Properties of the experiment driver (under Spec)                        *)
(***************************************************************************)
\* rank r is inside a repetition of the loop: order[r] lists what it has
\* invoked in repetition i[r]
InRepetition(r) ==
  pc[r] \in {"shuffle", "bcast", "timer_start", "kernel", "timer_stop",
             "norm", "fence", "barrier"}

\* the elements of a sequence
Range(seq) == {seq[j] : j \in 1..Len(seq)}

\* the experiments of rank r as the push_backs left them
EnabledList(r) == BuildExperiments(build, do_[r])

\* rank r has been through the availability checks, which end in the first
\* barrier
PastSetup(r) == bar[r] >= 1

\* C1: in every repetition every rank invokes the backends in the order of
\* rank 0 (position by position), and two ranks are never inside the kernels
\* of two different backends at the same time.
C1_SameOrder ==
  /\ \A r \in Ranks :
       (InRepetition(r) /\ InRepetition(0) /\ i[r] = i[0]) =>
         \A j \in 1..Len(order[r]) :
           j <= Len(order[0]) => order[r][j] = order[0][j]
  /\ \A r, q \in Ranks :
       (running[r] # "none" /\ running[q] # "none") => running[r] = running[q]

\* two ranks have each invoked two backends in the second repetition, in an
\* order that is not the order of the push_backs
C1_Witness ==
  /\ numProc = 2
  /\ InRepetition(0) /\ InRepetition(1)
  /\ i[0] = 1 /\ i[1] = 1
  /\ Len(order[0]) = 2 /\ Len(order[1]) = 2
  /\ order[1] # EnabledList(1)

\* C2: the list stays a permutation of the enabled list, no backend is
\* invoked twice within a repetition, and once the loop is over every enabled
\* backend has been invoked, and its timer started, exactly nrepeat times.
C2_ExactlyOnce ==
  \A r \in Ranks :
    /\ PastSetup(r) =>
         /\ Len(my_experiments[r]) = Len(EnabledList(r))
         /\ Range(my_experiments[r]) = Range(EnabledList(r))
    /\ InRepetition(r) =>
         /\ Cardinality(Range(order[r])) = Len(order[r])
         /\ Range(order[r]) \subseteq Range(EnabledList(r))
    /\ "loop" \in phases[r] =>
         \A e \in Experiments :
           LET n == IF e \in Range(EnabledList(r)) THEN argv.nrepeat ELSE 0
           IN calls[r][e] = n /\ timers[r][e] = n

\* a run of two repetitions with at least two backends is over on both ranks
C2_Witness ==
  /\ numProc = 2
  /\ argv.nrepeat = 2
  /\ \A r \in Ranks :
       /\ "loop" \in phases[r]
       /\ Len(EnabledList(r)) >= 2
       /\ calls[r]["TPETRA"] = 2

\* experiment e is compiled into the build
CompiledIn(b, e) ==
  CASE e \in {"TPETRA", "KK"} -> TRUE
    [] e \in {"HYPRE", "PETSC"} -> FlagOf(e) \in b.have /\ b.mpi
    [] OTHER -> FlagOf(e) \in b.have

CheckedBackends ==
  {<<"mkl", "MKL">>, <<"cusparse", "CuSparse">>,
   <<"magmasparse", "MagmaSparse">>, <<"hypre", "Hypre">>,
   <<"petsc", "Petsc">>}

\* C4: a backend that is requested but not compiled in, or requested on a
\* process count it does not support, has its flag false after the checks and
\* a warning naming it on the output of rank 0; the run goes on.
C4_DisabledWithWarning ==
  \A r \in Ranks :
    PastSetup(r) =>
      /\ \A c \in CheckedBackends :
           (Requested(build, argv)[c[1]] /\ c[1] \notin build.have) =>
             /\ ~do_[r][c[1]]
             /\ r = 0 => c[2] \in out[r]
      /\ (Requested(build, argv)["kk"] /\ numProc > 1) =>
           /\ ~do_[r]["kk"]
           /\ r = 0 => "KK" \in out[r]
      /\ ~thrown[r] => pc[r] # "catch"

\* --petsc in a build without PETSc: the flag is still true after the checks
\* and no warning names PETSc
C4_PetscNotDisabled ==
  /\ "petsc" \notin build.have
  /\ argv.opt["petsc"] = "on"
  /\ PastSetup(0)
  /\ do_[0]["petsc"]
  /\ "Petsc" \notin out[0]

\* C5: a non-zero code from a native call, in a constructor or in spmv, is
\* not ignored: an exception is raised at once, and main_ returns non-zero.
C5_NativeErrorFatal ==
  \A r \in Ranks :
    nativeError[r] # {} =>
      /\ thrown[r]
      /\ pc[r] \in {"catch", "finalize", "returned"}
      /\ pc[r] = "returned" => exitStatus[r] # EXIT_SUCCESS

\* a native product call returned non-zero in the loop, and main_ has
\* returned EXIT_SUCCESS
C5_ErrorIgnored ==
  \E r \in Ranks :
    /\ "spmv" \in nativeError[r]
    /\ pc[r] = "returned"
    /\ exitStatus[r] = EXIT_SUCCESS

\* everything the run is made of has completed on rank r
AllPhasesDone(r) == {"loop", "summary", "report"} \subseteq phases[r]

\* C6 as stated: non-zero whenever an exception was thrown, zero only after
\* the loop, the timer summary and the cost reporter have completed.
C6_ZeroOnlyAfterRun ==
  \A r \in Ranks :
    pc[r] = "returned" =>
      /\ thrown[r] => exitStatus[r] # EXIT_SUCCESS
      /\ exitStatus[r] = EXIT_SUCCESS => AllPhasesDone(r)

\* C6, amended: non-zero whenever an exception was thrown; zero only after
\* the loop, the timer summary and the cost reporter have completed, or when
\* the command line asked for the help text, which is printed before anything
\* is loaded.
C6_ZeroOnlyAfterRunOrHelp ==
  \A r \in Ranks :
    pc[r] = "returned" =>
      /\ thrown[r] => exitStatus[r] # EXIT_SUCCESS
      /\ exitStatus[r] = EXIT_SUCCESS =>
           \/ AllPhasesDone(r) /\ success[r]
           \/ argv.parse = "PARSE_HELP_PRINTED" /\ phases[r] = {}

\* a full run of two repetitions has returned zero
C6_Witness ==
  \E r \in Ranks :
    /\ pc[r] = "returned"
    /\ exitStatus[r] = EXIT_SUCCESS
    /\ argv.parse = "PARSE_SUCCESSFUL"
    /\ AllPhasesDone(r)
    /\ calls[r]["TPETRA"] = 2

\* C7: once PetscInitialize has been called, PetscFinalize is called before
\* main_ returns, on every path.
C7_PetscFinalized ==
  \A r \in Ranks : pc[r] = "returned" => petsc[r] # "initialized"

\* main_ has returned from the help case with PETSc still initialized
C7_HelpSkipsFinalize ==
  \E r \in Ranks :
    /\ pc[r] = "returned"
    /\ argv.parse = "PARSE_HELP_PRINTED"
    /\ petsc[r] = "initialized"

\* C9: with every native call succeeding, after the spmv(1,0) of any adapter
\* the shared y of the driver holds the product A*x, which is the baseline.
C9_SharedYHoldsProduct ==
  \A r \in Ranks :
    (/\ pc[r] = "timer_stop"
     /\ running[r] \in DOMAIN adapters[r]
     /\ nativeError[r] = {}) =>
      y[r] = MV_Tpetra(r, numProc, x[r], y[r])

\* the PETSc adapter has computed the product into its own vector, and the
\* shared y still holds the NaN it was filled with
C9_PetscLeavesNaN ==
  \E r \in Ranks :
    /\ pc[r] = "timer_stop"
    /\ running[r] = "PETSC"
    /\ nativeError[r] = {}
    /\ adapters[r]["PETSC"].y_nat = MV_Tpetra(r, numProc, x[r], y[r])
    /\ y[r] = putScalar(LocalRows, NaN)

(***************************************************************************)
(* Properties of one adapter object (under SpecPack)                       *)
(***************************************************************************)
\* the local matrix of the single process applied to a vector
ApplyA(X) == LocalSpMV(0, 1, X, one)

\* C8: a successful spmv(alpha, beta) leaves the adapter's output vector
\* equal to alpha*A*x + beta*y_old, for the alpha and beta that were passed.
C8_AlphaBetaUsed ==
  (lastCall # << >> /\ lastCall.rc = 0) =>
    lastCall.y_new = AxpbyVec(lastCall.alpha, ApplyA(lastCall.x_in),
                              lastCall.beta, lastCall.y_old)

\* the PETSc adapter was called with alpha = 2 and beta = 0 and its output
\* vector holds A*x, not 2*A*x
C8_PetscIgnoresAlpha ==
  /\ pk_state = "built"
  /\ lastCall # << >>
  /\ pack.kind = "PETSC"
  /\ lastCall.alpha = 2 /\ lastCall.beta = 0 /\ lastCall.rc = 0
  /\ lastCall.y_new = ApplyA(pack.x_nat)
  /\ lastCall.y_new # AxpbyVec(2, ApplyA(pack.x_nat), 0, lastCall.y_old)

\* C10: every spmv call of every adapter class runs the product exactly once
\* and fences after it, before it returns.
C10_OnceAndFenced ==
  lastCall # << >> => lastCall.launches = 1 /\ lastCall.fence

\* the generic MagmaSparse template returned from spmv without a product
\* and without a fence
C10_GenericDoesNothing ==
  /\ lastCall # << >>
  /\ pack.kind = "MAGMASPARSE"
  /\ ~pack.specialized
  /\ lastCall.launches = 0
  /\ ~lastCall.fence

OutputOf(e, res) ==
  IF e \in PackKinds THEN Pack_output(res.pk, res.Y) ELSE res.Y

\* the results experiment e can give on rank r when it is the first one to
\* run: x all ones, y filled with NaN, its adapter as constructed, the native
\* call succeeding
FirstRunOutputs(e, r) ==
  LET X == putScalar(LocalRows, one)
      Y == putScalar(LocalRows, NaN)
      pk == IF e \in PackKinds
            THEN Pack_construct(e, Specialized(build), X, Y) ELSE << >>
  IN {OutputOf(e, Dispatch(e, pk, r, numProc, X, Y, nat)) :
        nat \in {n \in NativeInputs : n.rc = 0}}

\* C16: whatever ran before it and whatever that left in the shared y, the
\* result of a backend is a result the backend gives when it runs first, so
\* the results of a repetition are the same under every order.
C16_OrderIndependent ==
  \A r \in Ranks :
    (pc[r] = "timer_stop" /\ nativeError[r] = {}) =>
      OutputOf(running[r],
               [pk |-> IF running[r] \in PackKinds
                       THEN adapters[r][running[r]] ELSE << >>,
                Y |-> y[r]])
        \in FirstRunOutputs(running[r], r)

\* the generic MagmaSparse template ran after the Tpetra kernel in a run
\* without norm reporting, and its output is the product Tpetra left in y;
\* run first, it leaves NaN
C16_MagmaKeepsPrevious ==
  \E r \in Ranks :
    /\ pc[r] = "timer_stop"
    /\ running[r] = "MAGMASPARSE"
    /\ ~Specialized(build)
    /\ ~argv.report_error_norms
    /\ nativeError[r] = {}
    /\ Len(order[r]) >= 2
    /\ order[r][Len(order[r]) - 1] = "TPETRA"
    /\ y[r] = MV_Tpetra(r, numProc, x[r], y[r])
    /\ FirstRunOutputs("MAGMASPARSE", r) = {putScalar(LocalRows, NaN)}

\* C18: every kernel call of the loop, with norm reporting on or off,
\* starts with the shared y holding NaN in every entry.
C18_StartsFromNaN ==
  \A r \in Ranks :
    pc[r] \in {"timer_start", "kernel"} => y[r] = putScalar(LocalRows, NaN)

\* in a run without norm reporting a kernel is about to be called and the
\* shared y still holds the product the kernel before it wrote
C18_NoRefillWithoutNorms ==
  \E r \in Ranks :
    /\ pc[r] = "kernel"
    /\ ~argv.report_error_norms
    /\ order[r] # << >>
    /\ order[r][Len(order[r])] \in {"TPETRA", "KK"}
    /\ y[r] = MV_Tpetra(r, numProc, x[r], y[r])
    /\ \A j \in 1..LocalRows : ~y[r][j].nan

\* the steps of one invocation, from the TimeMonitor to the barrier
InvocationSteps == <<"timer_start", "kernel", "timer_stop", "norm", "fence",
                     "barrier">>

\* the position of a step in InvocationSteps, 0 for any other place
StepNo(p) ==
  IF p \in Range(InvocationSteps)
  THEN CHOOSE n \in DOMAIN InvocationSteps : InvocationSteps[n] = p
  ELSE 0

\* C19: an invocation goes timer start, kernel, timer stop, the norm check
\* if norms are reported, fence, barrier; the timer of the backend runs from
\* its start to its stop and so over the kernel only; and a rank is past a
\* barrier only when every rank has entered it.
C19_Sequenced ==
  /\ [](\A r \in Ranks :
          /\ running[r] # "none" <=> pc[r] \in {"kernel", "timer_stop"}
          /\ running[r] # "none" => running[r] = experiment_id(r)
          /\ pc[r] \in {"timer_start", "kernel", "timer_stop", "norm", "fence"}
               => \A q \in Ranks : bar[q] >= bar[r])
  /\ [][\A r \in Ranks :
          (StepNo(pc[r]) > 0 /\ pc'[r] # pc[r]) =>
            CASE pc[r] = "timer_stop" ->
                   pc'[r] = IF argv.report_error_norms THEN "norm" ELSE "fence"
              [] pc[r] = "barrier" -> pc'[r] \in {"timer_start", "loop"}
              [] OTHER -> StepNo(pc'[r]) = StepNo(pc[r]) + 1]_vars

\* on two ranks with norm reporting, one rank waits in the barrier of its
\* second invocation of a repetition while the other is still in the kernel
C19_Witness ==
  \E r, q \in Ranks :
    /\ pc[r] = "barrier" /\ pc[q] = "kernel"
    /\ bar[r] = bar[q] + 1
    /\ argv.report_error_norms
    /\ Len(order[r]) = 2
    /\ running[q] = order[r][2]

\* C20: with norm reporting the baseline is written by one call of the
\* Tpetra kernel, made before the first repetition, and from then on no step
\* changes it: at every step of the loop it is the product of A and the
\* all-ones x.
C20_BaselineOnce ==
  /\ [](\A r \in Ranks :
          /\ baseline_calls[r] <= 1
          /\ (argv.report_error_norms /\ (InRepetition(r) \/ pc[r] = "loop")) =>
               /\ baseline_calls[r] = 1
               /\ y_baseline[r] = ApplyOnes(r, numProc))
  /\ [][\A r \in Ranks :
          y_baseline'[r] # y_baseline[r] => pc[r] \in {"bar1", "bar2"}]_vars

\* a rank is at the norm check of its second repetition: the baseline is the
\* product, computed by one call, and y is not NaN
C20_Witness ==
  \E r \in Ranks :
    /\ pc[r] = "norm"
    /\ i[r] = 1
    /\ argv.report_error_norms
    /\ baseline_calls[r] = 1
    /\ y_baseline[r] = ApplyOnes(r, numProc)
    /\ y_baseline[r] # putScalar(LocalRows, NaN)

(***************************************************************************)
(* report_performance_models: the remote part                              *)
(***************************************************************************)
\* lines 285-363: the four remote times start at 0.0 and are assigned only
\* under "if (!importer.is_null())"; with an importer they are sums of table
\* lookups and of the launch latency, here a positive amount each
RemotePart(importerIsNull) ==
  [time_pack_unpack_outofplace |-> IF importerIsNull THEN 0 ELSE 1,
   time_pack_unpack_inplace |-> IF importerIsNull THEN 0 ELSE 1,
   time_communicate_ping |-> IF importerIsNull THEN 0 ELSE 1,
   time_communicate_halo |-> IF importerIsNull THEN 0 ELSE 1]

\* rank r has been in report_performance_models and has left it
ReporterLeft(r) ==
  "summary" \in phases[r] /\ pc[r] \in {"catch", "crashed", "finalize", "returned"}

\* C12: with a null importer the cost reporter builds no halo table, raises
\* no error and runs to its end, and the ping-pong time, the halo time and
\* both pack/unpack times are zero.
C12_NullImporterSkips ==
  \A r \in Ranks :
    (ImporterIsNull /\ ReporterLeft(r)) =>
      /\ ~thrown[r]
      /\ pc[r] # "crashed"
      /\ "report" \in phases[r]
      /\ \A t \in DOMAIN RemotePart(ImporterIsNull) :
           RemotePart(ImporterIsNull)[t] = 0

\* a run on one process went through the loop and the timer summary, threw
\* in the cost reporter and returned EXIT_FAILURE
C12_NullImporterThrows ==
  /\ numProc = 1
  /\ pc[0] = "returned"
  /\ {"loop", "summary"} \subseteq phases[0]
  /\ "report" \notin phases[0]
  /\ thrown[0]
  /\ exitStatus[0] = EXIT_FAILURE

(***************************************************************************)
(* MakeContiguousMaps.  A Tpetra::Map is a record                          *)
(*   id          the identity of the map object (two RCPs point to the     *)
(*               same object exactly when the ids are equal)               *)
(*   gids        gids[p][l+1] is the global index of local index l on      *)
(*               process p                                                 *)
(*   contiguous  what isContiguous() returns: set by the constructor that  *)
(*               takes counts, clear for the one that takes a list         *)
(***************************************************************************)
\* largest number of processes the maps are distributed over
MaxMapProc == 2
\* largest global index of an input map
MaxGid == 3
\* largest number of entries of an input map on one process
MaxLocal == 2

MapProcs(m) == DOMAIN m.gids

RECURSIVE SumTo(_, _)
\* f[0] + ... + f[p-1]
SumTo(f, p) == IF p = 0 THEN 0 ELSE SumTo(f, p - 1) + f[p - 1]

getLocalNumElements(m, p) == Len(m.gids[p])

\* the number of entries over all processes
getGlobalNumElements(m) ==
  SumTo([p \in MapProcs(m) |-> Len(m.gids[p])], Cardinality(MapProcs(m)))

isContiguous(m) == m.contiguous

getLocalElementList(m, p) == m.gids[p]

\* Tpetra::Map(numGlobal, numLocal, indexBase, comm): process p gets numLocal
\* consecutive indices that start where those of process p - 1 end, the
\* first process at indexBase
Map_contiguous(id, numGlobal, numLocal, indexBase) ==
  [id |-> id,
   gids |-> [p \in DOMAIN numLocal |->
               [l \in 1..numLocal[p] |->
                  indexBase + SumTo(numLocal, p) + (l - 1)]],
   contiguous |-> TRUE]

\* Tpetra::Map(numGlobal, indexList, indexBase, comm)
Map_fromList(id, numGlobal, indexList, indexBase) ==
  [id |-> id, gids |-> indexList, contiguous |-> FALSE]

\* where a global index lives in a one-to-one map: <<process, position>>
Owner(m, g) ==
  CHOOSE pl \in UNION {{<<p, l>> : l \in 1..Len(m.gids[p])} :
                         p \in MapProcs(m)} :
    m.gids[pl[1]][pl[2]] = g

\* ColGIDs.doImport(MyGIDs, importer, INSERT), the importer going from the
\* domain map to the column map: every entry of the target gets the value
\* the source holds at the owner of its global index
doImport(src, DomainMap, ColumnMap) ==
  [p \in MapProcs(ColumnMap) |->
     [j \in 1..Len(ColumnMap.gids[p]) |->
        LET o == Owner(DomainMap, ColumnMap.gids[p][j])
        IN src[o[1]][o[2]]]]

\* new map_type(getGlobalNumElements(), getLocalNumElements(), 0, getComm())
\* of a map, lines 466-467 and 478-479
Renumber(id, m) ==
  Map_contiguous(id, getGlobalNumElements(m),
                 [p \in MapProcs(m) |-> getLocalNumElements(m, p)], 0)

RowMapPart_rebuild(RowMap) == Renumber("newRow", RowMap)

\* lines 460-468: the contiguous row map
RowMapPart(RowMap) ==
  IF isContiguous(RowMap) THEN RowMap ELSE Renumber("newRow", RowMap)

NewDomainMap_base1(DomainMap) ==
  Map_contiguous("newDomain", getGlobalNumElements(DomainMap),
                 [p \in MapProcs(DomainMap) |->
                    getLocalNumElements(DomainMap, p)], 1)

\* lines 478-479: the new domain map
NewDomainMap(DomainMap) == Renumber("newDomain", DomainMap)

NewColumnMap_noImport(M, newDom) ==
  Map_fromList("newColumn", getGlobalNumElements(M.ColumnMap),
               [p \in MapProcs(M.DomainMap) |-> getLocalElementList(newDom, p)],
               0)

\* lines 480-494: the new column map, through the importer if there is one
NewColumnMap(M, newDom) ==
  LET MyGIDsHYPRE == [p \in MapProcs(M.DomainMap) |->
                        getLocalElementList(newDom, p)]
      ColGIDsHYPRE == doImport(MyGIDsHYPRE, M.DomainMap, M.ColumnMap)
  IN IF M.importer
     THEN Map_fromList("newColumn", getGlobalNumElements(M.ColumnMap),
                       ColGIDsHYPRE, 0)
     ELSE Map_fromList("newColumn", getGlobalNumElements(M.ColumnMap),
                       MyGIDsHYPRE, 0)

\* a builder that renumbers the domain map whatever it is
MakeContiguousMaps_always(M) ==
  [row |-> RowMapPart(M.RowMap), dom |-> NewDomainMap(M.DomainMap),
   col |-> NewColumnMap(M, NewDomainMap(M.DomainMap))]

\* lines 437-496; the result is the three output arguments
MakeContiguousMaps(M) ==
  LET row == RowMapPart(M.RowMap)
      newDom == NewDomainMap(M.DomainMap)
  IN IF isContiguous(M.DomainMap)
     THEN [row |-> row, dom |-> M.DomainMap, col |-> M.ColumnMap]
     ELSE [row |-> row, dom |-> newDom, col |-> NewColumnMap(M, newDom)]

\* the sequences without repetition over a set, up to a length
SeqsNoRep(S, n) ==
  UNION {{q \in [1..len -> S] : \A a, b \in 1..len : a # b => q[a] # q[b]} :
           len \in 0..n}

\* largest number of unknowns of an input matrix
MaxUnknowns == 3

\* the one-to-one distributions of global indices over P processes
Distributions(P) ==
  {d \in [0..(P - 1) -> SeqsNoRep(0..MaxGid, MaxLocal)] :
     /\ \A p, q \in 0..(P - 1) :
          p # q => {d[p][l] : l \in 1..Len(d[p])}
                     \cap {d[q][l] : l \in 1..Len(d[q])} = {}
     /\ SumTo([p \in 0..(P - 1) |-> Len(d[p])], P) <= MaxUnknowns}

\* the global indices of a distribution
GidsOf(d) == UNION {{d[p][l] : l \in 1..Len(d[p])} : p \in DOMAIN d}

\* the indices of a distribution are what the constructor with counts gives
\* for some index base
IsRun(d) ==
  \E base \in 0..MaxGid :
    d = Map_contiguous("run", 0, [p \in DOMAIN d |-> Len(d[p])], base).gids

\* Tpetra::CrsGraph builds an importer unless the column map is the same as
\* the domain map (the same indices in the same order on every process)
getImporter(DomainMap, ColumnMap) == DomainMap.gids # ColumnMap.gids

\* the run of the same counts as a distribution, from index 0
RunOf(d) == Map_contiguous("run", 0, [p \in DOMAIN d |-> Len(d[p])], 0).gids

\* A call with some matrix; the output arguments are null RCPs.  The domain
\* map is any one-to-one map, the row map has the indices of the domain map
\* or a run of the same counts, and either is flagged contiguous only if its
\* indices are a run; the column map lists, on each process, indices of the
\* domain map in any order.
MapsInit ==
  /\ mcm_state = "called"
  /\ \E P \in 1..MaxMapProc :
       \E dg \in Distributions(P) :
         \E rg \in {dg, RunOf(dg)}, rc \in BOOLEAN, dc \in BOOLEAN,
            cg \in [DOMAIN dg -> SeqsNoRep(GidsOf(dg), MaxUnknowns)] :
           /\ rc => IsRun(rg)
           /\ dc => IsRun(dg)
           /\ Matrix =
                [RowMap |-> [id |-> "RowMap", gids |-> rg, contiguous |-> rc],
                 DomainMap |->
                   [id |-> "DomainMap", gids |-> dg, contiguous |-> dc],
                 ColumnMap |->
                   [id |-> "ColumnMap", gids |-> cg, contiguous |-> FALSE],
                 importer |->
                   getImporter([gids |-> dg], [gids |-> cg])]
  /\ ContiguousRowMap = << >>
  /\ ContiguousColumnMap = << >>
  /\ ContiguousDomainMap = << >>

\* the body of MakeContiguousMaps
MapsReturn ==
  /\ mcm_state = "called"
  /\ LET res == MakeContiguousMaps(Matrix)
     IN /\ ContiguousRowMap' = res.row
        /\ ContiguousColumnMap' = res.col
        /\ ContiguousDomainMap' = res.dom
  /\ mcm_state' = "returned"
  /\ UNCHANGED Matrix
  /\ UNCHANGED non_maps_vars

MapsNext == MapsReturn

InitMaps == DrvIdle /\ PackIdle /\ MapsInit /\ RpmIdle

SpecMaps == InitMaps /\ [][MapsNext]_vars

(***************************************************************************)
(* Properties of MakeContiguousMaps (under SpecMaps)                       *)
(***************************************************************************)
\* C13: with a contiguous row map the contiguous row map returned is the
\* row map object of the matrix itself, whatever the domain map is.
C13_RowMapReused ==
  (mcm_state = "returned" /\ isContiguous(Matrix.RowMap)) =>
    /\ ContiguousRowMap.id = Matrix.RowMap.id
    /\ ContiguousRowMap = Matrix.RowMap

\* the call has returned for a contiguous row map and a domain map that is
\* not contiguous
C13_Witness ==
  /\ mcm_state = "returned"
  /\ isContiguous(Matrix.RowMap)
  /\ ~isContiguous(Matrix.DomainMap)
  /\ getGlobalNumElements(Matrix.RowMap) >= 2
  /\ ContiguousDomainMap.id # Matrix.DomainMap.id

\* the positions <<process, local index>> of a map
Positions(m) ==
  UNION {{<<p, l>> : l \in 1..Len(m.gids[p])} : p \in MapProcs(m)}

\* what C14 asks of a map built in the place of the map old
Renumbered(new, old) ==
  /\ \A a, b \in Positions(new) :
       a # b => new.gids[a[1]][a[2]] # new.gids[b[1]][b[2]]
  /\ \A p \in MapProcs(new) :
       /\ getLocalNumElements(new, p) = getLocalNumElements(old, p)
       /\ \A l \in 1..Len(new.gids[p]) :
            new.gids[p][l] = SumTo([q \in MapProcs(old) |-> Len(old.gids[q])], p)
                             + (l - 1)
  /\ getGlobalNumElements(new) = getGlobalNumElements(old)
  /\ {new.gids[a[1]][a[2]] : a \in Positions(new)}
       = 0..(getGlobalNumElements(old) - 1)

\* C14: the map built for a non-contiguous row or domain map gives every
\* local index of every process an identifier of its own, each process one
\* unbroken run in a numbering that starts at 0, with the local counts and the
\* global count of the input map.
C14_NewMapsAreRuns ==
  mcm_state = "returned" =>
    /\ ~isContiguous(Matrix.RowMap) =>
         Renumbered(ContiguousRowMap, Matrix.RowMap)
    /\ ~isContiguous(Matrix.DomainMap) =>
         Renumbered(ContiguousDomainMap, Matrix.DomainMap)

\* the call has returned for a domain map of three indices on two processes
\* that are not a run
C14_Witness ==
  /\ mcm_state = "returned"
  /\ ~IsRun(Matrix.DomainMap.gids)
  /\ ~IsRun(Matrix.RowMap.gids)
  /\ Cardinality(MapProcs(Matrix.DomainMap)) = 2
  /\ \A p \in MapProcs(Matrix.DomainMap) :
       getLocalNumElements(Matrix.DomainMap, p) >= 1
  /\ getGlobalNumElements(Matrix.DomainMap) = 3
  /\ ContiguousDomainMap.id = "newDomain"
  /\ ContiguousRowMap.id = "newRow"

\* the identifier a map gives to the unknown that the map old calls g
Relabel(new, old, g) ==
  LET o == Owner(old, g) IN new.gids[o[1]][o[2]]

\* C15: at every local column index j of every process the returned column
\* map holds the identifier the returned domain map gives to the unknown of
\* the original column map's identifier at j, and the local sizes of the
\* column map are kept; with an importer and without one.
C15_ColumnsConsistent ==
  mcm_state = "returned" =>
    \A p \in MapProcs(Matrix.ColumnMap) :
      /\ getLocalNumElements(ContiguousColumnMap, p)
           = getLocalNumElements(Matrix.ColumnMap, p)
      /\ \A j \in 1..Len(Matrix.ColumnMap.gids[p]) :
           ContiguousColumnMap.gids[p][j]
             = Relabel(ContiguousDomainMap, Matrix.DomainMap,
                       Matrix.ColumnMap.gids[p][j])

\* the call has returned a new column map, built through the importer, for
\* a process whose column map holds an index another process owns
C15_Witness ==
  /\ mcm_state = "returned"
  /\ Matrix.importer
  /\ ContiguousColumnMap.id = "newColumn"
  /\ ContiguousColumnMap.gids # Matrix.ColumnMap.gids
  /\ \E p \in MapProcs(Matrix.ColumnMap) :
       \E j \in 1..Len(Matrix.ColumnMap.gids[p]) :
         Owner(Matrix.DomainMap, Matrix.ColumnMap.gids[p][j])[1] # p

\* C21: with a contiguous domain map the domain map and the column map
\* returned are the objects of the matrix, unchanged, also when a new row map
\* was built.
C21_DomainAndColumnReused ==
  (mcm_state = "returned" /\ isContiguous(Matrix.DomainMap)) =>
    /\ ContiguousDomainMap.id = Matrix.DomainMap.id
    /\ ContiguousDomainMap = Matrix.DomainMap
    /\ ContiguousColumnMap.id = Matrix.ColumnMap.id
    /\ ContiguousColumnMap = Matrix.ColumnMap

\* the call has returned for a contiguous domain map and a row map that is
\* not contiguous, for which a new row map was built
C21_Witness ==
  /\ mcm_state = "returned"
  /\ isContiguous(Matrix.DomainMap)
  /\ ~isContiguous(Matrix.RowMap)
  /\ ContiguousRowMap.id = "newRow"
  /\ getGlobalNumElements(Matrix.DomainMap) >= 2
  /\ Matrix.importer

(***************************************************************************)
(* report_performance_models.  Counts of bytes do not fit the integers of  *)
(* the checker, so a count is a pair <<hi, lo>> that stands for            *)
(* hi * 2^16 + lo, with 0 <= lo < 2^16.  An int is kept as its 32-bit     *)
(* pattern, a pair with hi < 2^16; it is negative when hi >= 2^15.         *)
(* The times come from MueLu::PerfModels, which is outside this file: a    *)
(* time is the record of the lookup that returned it.                      *)
(***************************************************************************)
Limb == 65536

\* sizeof(SC) for double, sizeof(LO) for int, sizeof(rowptr_type) for size_t
sizeof_SC == 8
sizeof_LO == 4
sizeof_rowptr_type == 8

NUM_TIMERS == 6

BigOf(v) == <<v \div Limb, v % Limb>>

BigAdd(a, b) ==
  LET lo == a[2] + b[2] IN <<a[1] + b[1] + (lo \div Limb), lo % Limb>>

\* a count times a small factor
BigMul(a, c) ==
  LET lo == a[2] * c IN <<a[1] * c + (lo \div Limb), lo % Limb>>

\* the value is one an int can hold
FitsInt(a) == a[1] < Limb \div 2

\* conversion of an unsigned 64-bit value to int: the low 32 bits
NarrowToInt(a) == <<a[1] % Limb, a[2]>>

IsNegative(pattern) == pattern[1] >= Limb \div 2

\* int * int: the product if an int can hold it; if not the behaviour is
\* undefined, and the build either wraps around or traps (ub)
IntMul(a, c, ub) ==
  IF FitsInt(BigMul(a, c)) THEN [trap |-> FALSE, value |-> BigMul(a, c)]
  ELSE IF ub = "wrap"
       THEN [trap |-> FALSE, value |-> NarrowToInt(BigMul(a, c))]
       ELSE [trap |-> TRUE, value |-> <<0, 0>>]

\* the outcomes of undefined signed overflow
Overflows == {"wrap", "trap"}

\* PM.<table>_lookup(arg): the record of the call stands for the time
Lookup(table, arg) == [table |-> table, arg |-> arg]

\* Teuchos::reduceAll(REDUCE_SUM) over the ranks and the division by nproc
AverageOverRanks(t, nproc) == IF nproc > 1 THEN [avg |-> t] ELSE t

\* line 196
SPMV_test_names == <<"colind", "rowptr", "vals", "x", "y", "all">>

\* lines 201-211: SPMV_num_objects, as ints.  The all-bytes total is computed
\* in size_t and narrowed to int.
SPMV_num_objects(m, n, nnz) ==
  <<nnz, BigAdd(m, BigOf(1)), nnz, n, m,
    NarrowToInt(
      BigAdd(BigAdd(BigAdd(BigAdd(BigMul(BigAdd(m, BigOf(1)), sizeof_rowptr_type),
                                  BigMul(nnz, sizeof_LO)),
                           BigMul(nnz, sizeof_SC)),
                    BigMul(n, sizeof_SC)),
             BigMul(m, sizeof_SC)))>>

\* lines 201-208: SPMV_object_size
SPMV_object_size ==
  <<sizeof_LO, sizeof_rowptr_type, sizeof_SC, sizeof_SC, sizeof_SC, 1>>

\* lines 201-211: SPMV_corrected
SPMV_corrected == <<1, 1, 1, 1, 1, 0>>

\* line 221: int size_in_bytes = SPMV_object_size[i] * SPMV_num_objects[i],
\* for i = 0 .. NUM_TIMERS - 1 (position i + 1 here)
size_in_bytes(m, n, nnz, ub) ==
  [j \in 1..NUM_TIMERS |->
     IntMul(SPMV_num_objects(m, n, nnz)[j], SPMV_object_size[j], ub)]

\* lines 222-231: the time of timer i, from the table SPMV_corrected picks
avg_distributed(m, n, nnz, ub, nproc) ==
  [j \in 1..NUM_TIMERS |->
     AverageOverRanks(
       Lookup(IF SPMV_corrected[j] = 1
              THEN "latency_corrected_stream_vector" ELSE "stream_vector",
              size_in_bytes(m, n, nnz, ub)[j].value),
       nproc)]

\* line 234: (double)SPMV_object_size[i] * (double)SPMV_num_objects[i], exact;
\* negative when the int SPMV_num_objects[i] is
memory_traffic(m, n, nnz) ==
  [j \in 1..NUM_TIMERS |->
     IF IsNegative(SPMV_num_objects(m, n, nnz)[j])
     THEN [negative |-> TRUE, of |-> SPMV_num_objects(m, n, nnz)[j]]
     ELSE [negative |-> FALSE,
           of |-> BigMul(SPMV_num_objects(m, n, nnz)[j],
                         SPMV_object_size[j])]]

\* lines 265-274: spmv_memory_bytes, in unsigned long
spmv_memory_bytes(m, n, nnz) ==
  LET b == <<BigMul(BigAdd(m, BigOf(1)), sizeof_rowptr_type),
             BigMul(nnz, sizeof_LO), BigMul(nnz, sizeof_SC),
             BigMul(n, sizeof_SC), BigMul(m, sizeof_SC)>>
  IN b \o <<BigAdd(BigAdd(BigAdd(BigAdd(b[1], b[2]), b[3]), b[4]), b[5])>>

\* spmv_memory_bytes[i] / (GB * gb_per_sec[i]) with gb_per_sec[i] =
\* memory_traffic[i] / GB / avg_distributed[i] (lines 235 and 124-129): the
\* time of timer i scaled by bytes / traffic, which is that time when the
\* two counts are the same
TimeFor(bytes, traffic, time) ==
  IF ~traffic.negative /\ bytes = traffic.of THEN time
  ELSE [bytes |-> bytes, per |-> traffic, of_time |-> time]

\* a sum that adds the latency with every term
CompositeSum_perObject(avg_latency, terms) ==
  [j \in 1..(2 * Len(terms)) |->
     IF j % 2 = 1 THEN avg_latency ELSE terms[j \div 2]]

\* lines 277-279: minimum_local_composite_time, as the sequence of its
\* summands
CompositeSum(avg_latency, terms) == <<avg_latency>> \o terms

\* lines 244-281 after the lookups of lines 217-241
LocalModel(m, n, nnz, ub, nproc) ==
  LET avg_latency == AverageOverRanks(Lookup("launch_latency", << >>), nproc)
      times == avg_distributed(m, n, nnz, ub, nproc)
      terms == [j \in 1..(NUM_TIMERS - 1) |->
                  TimeFor(spmv_memory_bytes(m, n, nnz)[j],
                          memory_traffic(m, n, nnz)[j], times[j])]
  IN [size_in_bytes |-> size_in_bytes(m, n, nnz, ub),
      avg_distributed |-> times,
      avg_latency |-> avg_latency,
      terms |-> terms,
      minimum_local_composite_time |-> CompositeSum(avg_latency, terms),
      minimum_local_all_time |->
        TimeFor(spmv_memory_bytes(m, n, nnz)[NUM_TIMERS],
                memory_traffic(m, n, nnz)[NUM_TIMERS], times[NUM_TIMERS])]

RECURSIVE SumSeq(_)
SumSeq(q) == IF q = << >> THEN 0 ELSE Head(q) + SumSeq(Tail(q))

\* q[j] of a Teuchos::ArrayView, j counted from 0: past the end the read is
\* out of bounds and yields the garbage g (a build that checks bounds throws
\* before it reads)
ArrayViewAt(q, j, g) == IF j < Len(q) THEN q[j + 1] ELSE g

\* lines 296-318: the time of one class of the importer's indices, as the
\* sequence of its summands; 0.0 (no summand) for an empty class
ClassTime(num, nLO, nSC, avg_latency) ==
  IF num = 0 THEN << >>
  ELSE [j \in 1..nLO |->
          Lookup("latency_corrected_stream_vector", num * sizeof_LO)]
       \o [j \in 1..nSC |->
             Lookup("latency_corrected_stream_vector", num * sizeof_SC)]
       \o <<avg_latency>>

\* line 349: total_send_length / (2.0 * send_lengths.size())
\*         + total_recv_length / (2.0 * recv_lengths.size()),
\* in floating point: a fraction <<numerator, denominator>>, NaN when one
\* of the sizes is 0 (0.0 / 0.0)
AvgSizePerMsg(total_send_length, ns, total_recv_length, nr) ==
  IF ns = 0 \/ nr = 0 THEN "NaN"
  ELSE <<total_send_length * nr + total_recv_length * ns, 2 * ns * nr>>

\* lines 285-375, with a non-null importer imp
RemoteModel(imp, avg_latency, g) ==
  LET send_lengths == imp.send_lengths
      recv_lengths == imp.recv_lengths
      ns == Len(send_lengths)
      nr == Len(recv_lengths)
      same_time == ClassTime(imp.num_sames, 0, 2, avg_latency)
      permute_time == ClassTime(imp.num_permutes, 2, 2, avg_latency)
      export_time == ClassTime(SumSeq(send_lengths), 1, 2, avg_latency)
      remote_time == ClassTime(SumSeq(recv_lengths), 1, 2, avg_latency)
      send_time == [j \in 1..ns |->
                      Lookup("pingpong_device", send_lengths[j] * sizeof_SC)]
      recv_time == [j \in 1..nr |->
                      Lookup("pingpong_device", recv_lengths[j] * sizeof_SC)]
      total_send_length ==
        IF ns = 0 THEN 0 ELSE send_lengths[ns] * sizeof_SC
      total_recv_length ==
        IF nr = 0 THEN 0
        ELSE ArrayViewAt(send_lengths, nr - 1, g) * sizeof_SC
      avg_size_per_msg ==
        AvgSizePerMsg(total_send_length, ns, total_recv_length, nr)
  IN [out_of_bounds |-> {j \in 0..(nr - 1) : j >= ns},
      total_send_length |-> total_send_length,
      total_recv_length |-> total_recv_length,
      avg_size_per_msg |-> avg_size_per_msg,
      halo_lookup |-> Lookup("halopong_device", avg_size_per_msg),
      time_pack_unpack_outofplace |->
        same_time \o permute_time \o export_time \o remote_time,
      time_pack_unpack_inplace |-> permute_time \o export_time,
      time_communicate_ping |-> [max |-> <<send_time, recv_time>>],
      time_communicate_halo |-> Lookup("halopong_device", avg_size_per_msg)]

\* largest number of peers the distributor sends to or receives from, and
\* largest number of entries of one message
MaxPeers == 2
MaxLength == 2
\* largest number of calls of a timer of the registry
MaxTimerCalls == 2

\* local counts of rows, columns and entries: small ones, and 2^28, which an
\* int holds and whose product with 8 it does not.  All are below INT_MAX,
\* so m + 1 is an int.
RowCounts == {BigOf(1), <<4096, 0>>}
ColCounts == {BigOf(2), <<4096, 0>>}
EntryCounts == {BigOf(3), BigOf(4), <<4096, 0>>}

LengthLists == UNION {[1..len -> 1..MaxLength] : len \in 0..MaxPeers}

\* the importer of the matrix: null, or its counts and the message lengths
\* of its distributor
Importers ==
  {[is_null |-> TRUE, num_sames |-> 0, num_permutes |-> 0,
    send_lengths |-> << >>, recv_lengths |-> << >>]}
  \cup [is_null : {FALSE}, num_sames : {0, 1}, num_permutes : {0, 1},
        send_lengths : LengthLists, recv_lengths : LengthLists]

\* timer registries at the time of the call: the timers main_ has started in
\* its loop, each with the calls it made
Registries ==
  {[nm \in {} |-> 0],
   [nm \in {"MV KK: Total"} |-> MaxTimerCalls],
   [nm \in {"MV Tpetra: Total", "MV HYPRE: Total"} |-> 1]}

\* values an out-of-bounds read of a size_t can yield
GarbageLengths == {0, 5}

\* a call on some matrix, on rank 0 of nproc ranks
RpmInit ==
  /\ rpm_pc = "tables"
  /\ \E m \in RowCounts, n \in ColCounts, nnz \in EntryCounts,
        nproc \in 1..2, imp \in Importers, reg \in Registries,
        flat \in BOOLEAN :
       rpm_in = [m |-> m, n |-> n, nnz |-> nnz, rank |-> 0, nproc |-> nproc,
                 importer |-> imp, registry |-> reg,
                 globalTimeMonitor |-> flat]
  /\ rpm = << >>

\* lines 157-178: the tables are made; the halo table reads the counts of
\* the importer through the RCP, with no test for null.  A checked RCP
\* throws on null, an unchecked one dereferences the null pointer.
RpmTables ==
  /\ rpm_pc = "tables"
  /\ IF rpm_in.importer.is_null
     THEN \E checked \in BOOLEAN :
            rpm_pc' = IF checked THEN "thrown" ELSE "crashed"
     ELSE rpm_pc' = "local"
  /\ UNCHANGED <<rpm_in, rpm>>
  /\ UNCHANGED non_rpm_vars

\* lines 194-281: the local model.  An int product that overflows traps or
\* wraps around.
RpmLocal ==
  /\ rpm_pc = "local"
  /\ \E ub \in Overflows :
       LET lm == LocalModel(rpm_in.m, rpm_in.n, rpm_in.nnz, ub, rpm_in.nproc)
       IN IF \E j \in 1..NUM_TIMERS : lm.size_in_bytes[j].trap
          THEN rpm_pc' = "crashed" /\ UNCHANGED rpm
          ELSE rpm_pc' = "remote" /\ rpm' = [local |-> lm]
  /\ UNCHANGED rpm_in
  /\ UNCHANGED non_rpm_vars

\* lines 285-375: the remote model.  A read past the end of send_lengths
\* throws Teuchos::RangeError in a build that checks array bounds and yields
\* garbage in one that does not.
RpmRemote ==
  /\ rpm_pc = "remote"
  /\ \E checked \in BOOLEAN, g \in GarbageLengths :
       LET rm == RemoteModel(rpm_in.importer, rpm.local.avg_latency, g)
       IN IF rm.out_of_bounds # {} /\ checked
          THEN /\ rpm_pc' = "thrown"
               /\ rpm' = [local |-> rpm.local,
                          out_of_bounds |-> rm.out_of_bounds]
          ELSE /\ rpm_pc' = "ratios"
               /\ rpm' = [local |-> rpm.local, remote |-> rm,
                          out_of_bounds |-> rm.out_of_bounds]
  /\ UNCHANGED rpm_in
  /\ UNCHANGED non_rpm_vars

\* lines 379-431: the summary and, on rank 0, the table of ratios
RpmRatios ==
  /\ rpm_pc = "ratios"
  /\ rpm' = [local |-> rpm.local, remote |-> rpm.remote,
             out_of_bounds |-> rpm.out_of_bounds,
             table |-> RatioTable(rpm_in.registry, rpm_in.globalTimeMonitor)]
  /\ rpm_pc' = "returned"
  /\ UNCHANGED rpm_in
  /\ UNCHANGED non_rpm_vars

RpmNext == RpmTables \/ RpmLocal \/ RpmRemote \/ RpmRatios

InitRpm == DrvIdle /\ PackIdle /\ MapsIdle /\ RpmInit

SpecRpm == InitRpm /\ [][RpmNext]_vars

\* the local model has been computed
LocalDone == "local" \in DOMAIN rpm

\* the time the latency-corrected stream table gives for object j of
\* spmv_memory_bytes at that object's own byte count
OwnObjectTime(j) ==
  AverageOverRanks(
    Lookup("latency_corrected_stream_vector",
           spmv_memory_bytes(rpm_in.m, rpm_in.n, rpm_in.nnz)[j]),
    rpm_in.nproc)

\* C22: in the composite local prediction the term of each of the five
\* objects (row pointers, column indices, values, x, y) is the
\* latency-corrected stream time at that same object's byte count: at every
\* index the byte count and the bandwidth belong to the same object.
C22_TermsOfSameObject ==
  LocalDone =>
    \A j \in 1..(NUM_TIMERS - 1) : rpm.local.terms[j] = OwnObjectTime(j)

\* the row pointers' bytes are divided by the bandwidth measured for the
\* column indices, and the column indices' bytes by that of the row
\* pointers, on a matrix where no count overflows
C22_Witness ==
  /\ LocalDone
  /\ rpm_in.m = BigOf(1) /\ rpm_in.nnz = BigOf(3) /\ rpm_in.n = BigOf(2)
  /\ rpm.local.terms[1] # OwnObjectTime(1)
  /\ rpm.local.terms[1].bytes = BigOf(16)
  /\ rpm.local.terms[1].per.of = BigOf(12)
  /\ rpm.local.terms[2].bytes = BigOf(12)
  /\ rpm.local.terms[2].per.of = BigOf(16)
  /\ \A j \in 3..(NUM_TIMERS - 1) : rpm.local.terms[j] = OwnObjectTime(j)

\* the number of launch latencies among the summands of the composite
\* local prediction
LatencySummands ==
  Cardinality({j \in DOMAIN rpm.local.minimum_local_composite_time :
                 rpm.local.minimum_local_composite_time[j]
                   = rpm.local.avg_latency})

RemoteDone == "remote" \in DOMAIN rpm

\* C24: the total send length is the sum of the send lengths times the size
\* of a scalar, the total receive length the sum of the receive lengths
\* times the size of a scalar, and the message size of the halo-pong lookup
\* is the average number of bytes per message derived from these totals.
C24_TotalsAreSums ==
  RemoteDone =>
    LET imp == rpm_in.importer
        sends == SumSeq(imp.send_lengths) * sizeof_SC
        recvs == SumSeq(imp.recv_lengths) * sizeof_SC
    IN /\ rpm.remote.total_send_length = sends
       /\ rpm.remote.total_recv_length = recvs
       /\ rpm.remote.halo_lookup.arg
            = AvgSizePerMsg(sends, Len(imp.send_lengths),
                            recvs, Len(imp.recv_lengths))

\* with sends of 1 and 2 entries and receives of 2 and 2 entries (24 and 32
\* bytes in all) both totals are 16 bytes, the last send length times 8, and
\* the halo-pong lookup is made at 8 bytes per message instead of 14
C24_Witness ==
  /\ RemoteDone
  /\ rpm_in.importer.send_lengths = <<1, 2>>
  /\ rpm_in.importer.recv_lengths = <<2, 2>>
  /\ rpm.out_of_bounds = {}
  /\ rpm.remote.total_send_length = 16
  /\ rpm.remote.total_recv_length = 16
  /\ rpm.remote.halo_lookup.arg = <<64, 8>>

\* C29: every array access of the send loop and of the receive loop is in
\* bounds, whatever the numbers of send peers and of receive peers.
C29_AccessesInBounds ==
  "out_of_bounds" \in DOMAIN rpm => rpm.out_of_bounds = {}

\* with one send peer and two receive peers the receive loop reads
\* send_lengths[1], past the end: a build that checks bounds throws there,
\* another one goes on with what it read
C29_Witness ==
  /\ "out_of_bounds" \in DOMAIN rpm
  /\ Len(rpm_in.importer.send_lengths) = 1
  /\ Len(rpm_in.importer.recv_lengths) = 2
  /\ rpm.out_of_bounds = {1}
  /\ rpm_pc = "thrown"

\* the number of bytes of object j of the lookup arrays, j = NUM_TIMERS for
\* all of them together
TrueBytes(j) ==
  IF j = NUM_TIMERS
  THEN spmv_memory_bytes(rpm_in.m, rpm_in.n, rpm_in.nnz)[NUM_TIMERS]
  ELSE BigMul(<<rpm_in.nnz, BigAdd(rpm_in.m, BigOf(1)), rpm_in.nnz,
                rpm_in.n, rpm_in.m>>[j],
              SPMV_object_size[j])

\* the multiplication of line 221 trapped on an overflow
OverflowTrapped == rpm_pc = "crashed" /\ ~rpm_in.importer.is_null

\* C30: for every matrix whose local counts of rows, columns and entries fit
\* in a 32-bit signed int, no byte count overflows: every byte count passed
\* to a lookup is the true number of bytes of its object.
C30_ByteCountsExact ==
  /\ ~OverflowTrapped
  /\ LocalDone =>
       \A j \in 1..NUM_TIMERS :
         /\ ~rpm.local.size_in_bytes[j].trap
         /\ rpm.local.avg_distributed[j]
              = AverageOverRanks(
                  Lookup(IF j = NUM_TIMERS THEN "stream_vector"
                         ELSE "latency_corrected_stream_vector",
                         TrueBytes(j)),
                  rpm_in.nproc)

\* with 2^28 local entries, a count an int holds, the 2^31 bytes of the
\* values wrap around to INT_MIN and the lookup is made at that count
C30_Witness ==
  /\ LocalDone
  /\ rpm_in.m = BigOf(1) /\ rpm_in.n = BigOf(2) /\ rpm_in.nnz = <<4096, 0>>
  /\ FitsInt(rpm_in.nnz)
  /\ TrueBytes(3) = <<32768, 0>>
  /\ ~FitsInt(TrueBytes(3))
  /\ rpm.local.size_in_bytes[3].value = <<32768, 0>>
  /\ IsNegative(rpm.local.size_in_bytes[3].value)
  /\ rpm.local.size_in_bytes[1].value = <<16384, 0>>

\* the name under which the reporter looks for the timer of a backend
RowName(e) ==
  CASE e = "MKL" -> timer_names[1] [] e = "KK" -> timer_names[2]
    [] e = "TPETRA" -> timer_names[3] [] e = "CUSPARSE" -> timer_names[4]
    [] e = "MAGMASPARSE" -> timer_names[5] [] e = "HYPRE" -> timer_names[6]
    [] e = "PETSC" -> timer_names[7]

\* rank 0 has printed the end of the report
TablePrinted == numProc > 0 /\ "report" \in phases[0]

\* C25: with the flat timer the table of ratios rank 0 prints has one row
\* for exactly the backends invoked at least once in the run, each row
\* dividing by the elapsed time over a non-zero number of calls, the number
\* of times the backend was invoked; with the stacked timer it has no row
\* and the note is printed instead.  The other ranks print nothing.
C25_RowsAreInvokedBackends ==
  /\ TablePrinted =>
       LET t == ratio_table[0]
           invoked == {e \in Experiments : calls[0][e] > 0}
       IN IF argv.useStackedTimer
          THEN t.rows = << >> /\ t.note
          ELSE /\ ~t.note
               /\ Len(t.rows) = Cardinality(invoked)
               /\ \A e \in invoked :
                    \E j \in 1..Len(t.rows) :
                      /\ t.rows[j].name = RowName(e)
                      /\ t.rows[j].numCalls = calls[0][e]
                      /\ t.rows[j].numCalls > 0
  /\ \A r \in Ranks : r # 0 => ratio_table[r] = << >>

\* a run with the flat timer that invoked Tpetra twice and whose table has
\* the row of Tpetra
C25_WitnessFlat ==
  /\ TablePrinted /\ ~argv.useStackedTimer
  /\ calls[0]["TPETRA"] = MaxRepeat
  /\ ratio_table[0].rows
       = <<[name |-> "MV Tpetra: Total", numCalls |-> MaxRepeat]>>

\* a run with the stacked timer that invoked Tpetra and printed the note
C25_WitnessStacked ==
  /\ TablePrinted /\ argv.useStackedTimer
  /\ calls[0]["TPETRA"] > 0
  /\ ratio_table[0] = [rows |-> << >>, note |-> TRUE]

\* the construction of the adapters and of the MKL handle threw on rank r
ConstructionThrew(r) == thrown[r] /\ bar[r] = 1 /\ x[r] # << >>

\* C26: a backend that is disabled, by an option or by the availability
\* checks, makes no native call in the run: its adapter or native handle is
\* not constructed, and no failure of its library aborts the run.
C26_DisabledNotConstructed ==
  \A r \in Ranks :
    /\ \A e \in DOMAIN adapters[r] : do_[r][FlagOf(e)]
    /\ ConstructionThrew(r) => \E t \in build.have : do_[r][t]

\* a build with MKL and a scalar other than double, run with --nomkl and no
\* failing library call: the MKL block throws "MKL Type Mismatch" and the
\* run returns EXIT_FAILURE
C26_Witness ==
  \E r \in Ranks :
    /\ ~faulty /\ build.have = {"mkl"} /\ ~build.dbl
    /\ argv.opt["mkl"] = "off" /\ ~do_[r]["mkl"]
    /\ ConstructionThrew(r)
    /\ pc[r] = "returned" /\ exitStatus[r] = EXIT_FAILURE

\* a build with HYPRE run with --nohypre: the HYPRE adapter is constructed,
\* with its native objects
C26_HypreBuiltWhenOff ==
  \E r \in Ranks :
    /\ argv.opt["hypre"] = "off" /\ ~do_[r]["hypre"]
    /\ "HYPRE" \in DOMAIN adapters[r]
    /\ Pack_handles(adapters[r]["HYPRE"]) # {}
    /\ "HYPRE" \notin Range(my_experiments[r])

\* the kernel call main_ makes for experiment e on rank r launches nothing
SilentNoOp(r, e) ==
  Dispatch(e, IF e \in DOMAIN adapters[r] THEN adapters[r][e] ELSE << >>,
           r, numProc, x[r], y[r], NativeOk).launches = 0

\* C27: every identifier of the enabled list is dispatched to its own kernel
\* call under its own timer: in every build the default branch of the
\* switch is not reached, and no identifier of the list runs as a silent
\* no-op.
C27_EveryIdHasItsKernel ==
  \A r \in Ranks :
    /\ UnknownExperiment \notin out[r]
    /\ \A e \in Range(my_experiments[r]) : CaseCompiled(build, e)
    /\ pc[r] = "timer_stop" =>
         /\ running[r] = experiment_id(r)
         /\ order[r][Len(order[r])] = experiment_id(r)
         /\ ~SilentNoOp(r, experiment_id(r))

\* a build with MAGMASparse on a node that is not the Cuda node: MAGMASPARSE
\* is in the list, its timer has run and its spmv has returned, and y is
\* still the NaN fill
C27_Witness ==
  \E r \in Ranks :
    /\ build.have = {"magmasparse"} /\ ~build.cuda
    /\ pc[r] = "timer_stop" /\ experiment_id(r) = "MAGMASPARSE"
    /\ running[r] = "MAGMASPARSE" /\ timers[r]["MAGMASPARSE"] = 1
    /\ calls[r]["MAGMASPARSE"] = 1
    /\ order[r] = <<"MAGMASPARSE">>
    /\ SilentNoOp(r, "MAGMASPARSE")
    /\ y[r] = putScalar(LocalRows, NaN)

\* the parts of C27 that hold: the default branch is never taken, and every
\* identifier of the list has a case that starts the timer of its own name
C27_DefaultUnreachable ==
  \A r \in Ranks :
    /\ UnknownExperiment \notin out[r]
    /\ \A e \in Range(my_experiments[r]) : CaseCompiled(build, e)
    /\ pc[r] = "timer_stop" =>
         /\ running[r] = experiment_id(r)
         /\ timers[r][experiment_id(r)] > 0

\* main_ on every rank with progress: a rank that can take a step
\* eventually takes one (each process runs on its own)
SpecLive == Init /\ [][Next]_vars /\ WF_vars(Next)

\* the matrix is loaded on every rank and every rank is at or past the
\* first barrier
AllRanksSetUp == numProc > 0 /\ \A r \in Ranks : bar[r] >= 1

\* rank r has left main_
Left(r) == pc[r] \in {"returned", "crashed"}

\* C28: backend calls return in every run of the model.  Once every rank is
\* set up, the run terminates on every rank and every rank has reached the
\* reporting phase: no rank waits for a collective another rank never
\* enters.
C28_EveryRankTerminates ==
  AllRanksSetUp ~>
    (\A r \in Ranks : Left(r) /\ "summary" \in phases[r])

\* a native call of the HYPRE constructor returned an error on one rank,
\* which threw and left main_, and the other rank waits in the barrier of
\* line 1396, which the first never enters: nothing more happens
C28_Witness ==
  /\ numProc = 2 /\ build.have = {"hypre"}
  /\ \E r \in Ranks, q \in Ranks :
       /\ pc[r] = "returned" /\ "construct" \in nativeError[r]
       /\ ConstructionThrew(r)
       /\ pc[q] = "bar2" /\ bar[q] = 2 /\ bar[r] = 1 /\ ~BarrierDone(q)
       /\ nativeError[q] = {}
  /\ ~ENABLED Next

====
